---- MODULE Spec2Model ----
(***************************************************************************)
(* Model of SchemaCorrector (src/src/corrector.py): diff() builds a plan   *)
(* of Operations from two introspected schemas, apply() prints it or runs  *)
(* it inside one transaction on the target.                                *)
(*                                                                         *)
(* Table and column names are small integers, so that Python's sorted()    *)
(* is the ascending order; the text of identifiers (index and constraint   *)
(* names) is a sequence of one-character strings.                          *)
(***************************************************************************)
EXTENDS Integers, Sequences, FiniteSets, TLC

\* ------------------------------------------------------------------------
\* Bounds of the model
\* ------------------------------------------------------------------------
MaxTables == 3
MaxCols == 2
MaxFks == 2
MaxEdges == 2

Tables == 1..MaxTables
Cols == 1..MaxCols

\* ------------------------------------------------------------------------
\* Generic helpers
\* ------------------------------------------------------------------------
SeqToSet(s) == {s[i] : i \in DOMAIN s}

Min(a, b) == IF a <= b THEN a ELSE b

\* sorted(S) for a finite set of integers
RECURSIVE Sorted(_)
Sorted(S) ==
    IF S = {} THEN <<>>
    ELSE LET m == CHOOSE x \in S : \A y \in S : x <= y
         IN <<m>> \o Sorted(S \ {m})

\* [f(x) for x in s], flattened: f returns a sequence of operations
RECURSIVE FlatMap(_, _, _)
FlatMap(F(_), s, i) ==
    IF i > Len(s) THEN <<>> ELSE F(s[i]) \o FlatMap(F, s, i + 1)

\* all orders in which the elements of a sequence can be iterated
RECURSIVE Perms(_)
Perms(s) ==
    IF Len(s) <= 1 THEN {s}
    ELSE UNION {{<<s[i]>> \o p :
                   p \in Perms(SubSeq(s, 1, i - 1) \o SubSeq(s, i + 1, Len(s)))} :
                i \in DOMAIN s}

\* ------------------------------------------------------------------------
\* Identifier text
\* ------------------------------------------------------------------------
Digits == <<"1", "2", "3", "4", "5", "6", "7", "8", "9">>
NoName == <<>>
TableName(t) == <<"t", Digits[t]>>
ColName(c) == <<"c", Digits[c]>>
IndexName(t, k) == <<"i", "x", Digits[t], Digits[k]>>

\* '_'.join(parts)
RECURSIVE Join(_)
Join(parts) ==
    IF parts = <<>> THEN <<>>
    ELSE IF Len(parts) = 1 THEN parts[1]
    ELSE parts[1] \o <<"_">> \o Join(Tail(parts))

\* ------------------------------------------------------------------------
\* Schema snapshot: what the inspector returns for one database
\* ------------------------------------------------------------------------
Absent == [present |-> FALSE, type_sql |-> "", nullable |-> TRUE]
Column(type_sql, nullable) ==
    [present |-> TRUE, type_sql |-> type_sql, nullable |-> nullable]
NoColumns == [c \in Cols |-> Absent]

\* the schema argument of the constructor (None)
SchemaName == ""

ForeignKey(name, cols, ref_table, ref_cols, ondelete, onupdate) ==
    [name |-> name, constrained_columns |-> cols, referred_schema |-> "",
     referred_table |-> ref_table, referred_columns |-> ref_cols,
     ondelete |-> ondelete, onupdate |-> onupdate]

IndexInfo(name, cols, unique, reflected) ==
    [name |-> name, column_names |-> cols, unique |-> unique,
     reflected |-> reflected]
NoIndex == IndexInfo(NoName, <<>>, FALSE, FALSE)

\* inspector.get_table_names()
GetTableNames(db) == db.tables

\* inspector.get_foreign_keys(table)
GetForeignKeys(db, t) == db.fks[t]

\* _get_columns: the columns the inspector lists for a table
GetColumns(db, t) == {c \in Cols : db.columns[t][c].present}

\* ------------------------------------------------------------------------
\* Operation
\* ------------------------------------------------------------------------
Sql(stmt, table, column, type_sql, columns, fks, index, not_valid) ==
    [stmt |-> stmt, table |-> table, column |-> column,
     type_sql |-> type_sql, columns |-> columns, fks |-> fks,
     index |-> index, not_valid |-> not_valid]

NoOpSql == Sql("-- no-op", 0, 0, "", NoColumns, <<>>, NoIndex, FALSE)

Comment(text, table, column, name, count) ==
    [text |-> text, table |-> table, column |-> column, name |-> name,
     count |-> count]

Operation(kind, sql, comment) ==
    [kind |-> kind, sql |-> sql, comment |-> comment]

Report(comment) == Operation("report", NoOpSql, comment)

\* ------------------------------------------------------------------------
\* _sort_missing_tables_by_fk
\* ------------------------------------------------------------------------
\* SortDeps leaving out the reference of a table to itself
SortDepsOfOthers(fk_lists, missing) ==
    [t \in SeqToSet(missing) |->
        ({fk_lists[t][k].referred_table : k \in DOMAIN fk_lists[t]}
            \cap SeqToSet(missing)) \ {t}]

\* SortDeps without the test "rt in missing_set"
SortDepsAnywhere(fk_lists, missing) ==
    [t \in SeqToSet(missing) |->
        {fk_lists[t][k].referred_table : k \in DOMAIN fk_lists[t]}]

\* deps[t]: the referred tables of t that are themselves missing
SortDeps(fk_lists, missing) ==
    [t \in SeqToSet(missing) |->
        {fk_lists[t][k].referred_table : k \in DOMAIN fk_lists[t]}
            \cap SeqToSet(missing)]

\* Release without the test "not deps[t]": a table is freed as soon as one
\* of the tables it references was emitted
RECURSIVE ReleaseEager(_, _, _, _, _, _)
ReleaseEager(missing, i, n, deps, ready, out) ==
    IF i > Len(missing) THEN [deps |-> deps, ready |-> ready]
    ELSE LET t == missing[i]
         IN IF n \in deps[t]
            THEN LET d == [deps EXCEPT ![t] = @ \ {n}]
                     r == IF t \notin SeqToSet(out) /\ t \notin SeqToSet(ready)
                          THEN Append(ready, t) ELSE ready
                 IN ReleaseEager(missing, i + 1, n, d, r, out)
            ELSE ReleaseEager(missing, i + 1, n, deps, ready, out)

\* the inner loop "for t in missing" after n was appended to out
RECURSIVE Release(_, _, _, _, _, _)
Release(missing, i, n, deps, ready, out) ==
    IF i > Len(missing) THEN [deps |-> deps, ready |-> ready]
    ELSE LET t == missing[i]
         IN IF n \in deps[t]
            THEN LET d == [deps EXCEPT ![t] = @ \ {n}]
                     r == IF d[t] = {} /\ t \notin SeqToSet(out)
                             /\ t \notin SeqToSet(ready)
                          THEN Append(ready, t) ELSE ready
                 IN Release(missing, i + 1, n, d, r, out)
            ELSE Release(missing, i + 1, n, deps, ready, out)

\* the loop "while ready"
RECURSIVE KahnLoop(_, _, _, _)
KahnLoop(missing, deps, ready, out) ==
    IF ready = <<>> THEN out
    ELSE LET n == ready[Len(ready)]
             out1 == Append(out, n)
             r == Release(missing, 1, n, deps,
                          SubSeq(ready, 1, Len(ready) - 1), out1)
         IN KahnLoop(missing, r.deps, r.ready, out1)

\* SortMissingTablesByFk returning the partial order when a cycle is found
SortMissingTablesByFkPartial(fk_lists, missing) ==
    LET deps == SortDeps(fk_lists, missing)
        NoDeps(t) == deps[t] = {}
        ready == SelectSeq(missing, NoDeps)
        out == KahnLoop(missing, deps, ready, <<>>)
    IN [order |-> out, warned |-> Len(out) # Len(missing)]

SortMissingTablesByFk(fk_lists, missing) ==
    LET deps == SortDeps(fk_lists, missing)
        NoDeps(t) == deps[t] = {}
        ready == SelectSeq(missing, NoDeps)
        out == KahnLoop(missing, deps, ready, <<>>)
    IN IF Len(out) # Len(missing)
       THEN [order |-> missing, warned |-> TRUE]
       ELSE [order |-> out, warned |-> FALSE]

\* ------------------------------------------------------------------------
\* Dialect of the target engine
\* ------------------------------------------------------------------------
Dialects == {"sqlite", "postgresql", "mysql"}

\* _is_sqlite
IsSqlite(dialect) == dialect = "sqlite"

\* ------------------------------------------------------------------------
\* Planners of diff()
\* ------------------------------------------------------------------------
\* ExtraTableReport planning the removal of the table
ExtraTableDrop(t) ==
    <<Operation("drop_table",
                Sql("DROP TABLE", t, 0, "", NoColumns, <<>>, NoIndex, FALSE),
                Comment("EXTRA: table exists only in target", t, 0, NoName, 0))>>

\* the report of one table that exists only in the target
ExtraTableReport(t) ==
    <<Report(Comment("EXTRA: table exists only in target", t, 0, NoName, 0))>>

\* PlanCreateTable that always writes the foreign keys in the statement
PlanCreateTableWithFks(src, t, include_foreign_keys) ==
    <<Operation("create_table",
                Sql("CREATE TABLE", t, 0, "", src.columns[t], src.fks[t],
                    NoIndex, FALSE),
                Comment("Create table", t, 0, NoName, 0))>>

\* PlanCreateTable that never writes the foreign keys in the statement
PlanCreateTableNoFks(src, t, include_foreign_keys) ==
    <<Operation("create_table",
                Sql("CREATE TABLE", t, 0, "", src.columns[t], <<>>,
                    NoIndex, FALSE),
                Comment("Create table", t, 0, NoName, 0))>>

\* _plan_create_table
PlanCreateTable(src, t, include_foreign_keys) ==
    <<Operation("create_table",
                Sql("CREATE TABLE", t, 0, "", src.columns[t],
                    IF include_foreign_keys THEN src.fks[t] ELSE <<>>,
                    NoIndex, FALSE),
                Comment("Create table", t, 0, NoName, 0))>>

\* PlanAddMissingColumns comparing the column descriptors instead of the
\* column names: a column of the target that differs is added again
PlanAddColumnsThatDiffer(src, tgt, t) ==
    LET AddColumn(c) ==
            IF tgt.columns[t][c] = src.columns[t][c] THEN <<>>
            ELSE <<Operation("add_column",
                             Sql("ADD COLUMN", t, c,
                                 src.columns[t][c].type_sql,
                                 NoColumns, <<>>, NoIndex, FALSE),
                             Comment("Add column", t, c, NoName, 0))>>
    IN FlatMap(AddColumn, Sorted(GetColumns(src, t)), 1)

\* _plan_add_missing_columns
PlanAddMissingColumns(src, tgt, t) ==
    LET tgt_cols == GetColumns(tgt, t)
        AddColumn(c) ==
            IF c \in tgt_cols THEN <<>>
            ELSE <<Operation("add_column",
                             Sql("ADD COLUMN", t, c,
                                 src.columns[t][c].type_sql,
                                 NoColumns, <<>>, NoIndex, FALSE),
                             Comment("Add column", t, c, NoName, 0))>>
    IN FlatMap(AddColumn, Sorted(GetColumns(src, t)), 1)

\* ReportExtraColumns with the difference taken the other way round
ReportExtraColumnsOfSource(src, tgt, t) ==
    LET extra_cols == Sorted(GetColumns(src, t) \ GetColumns(tgt, t))
        ExtraColumn(c) ==
            <<Report(Comment("EXTRA: column exists only in target",
                             t, c, NoName, 0))>>
    IN FlatMap(ExtraColumn, extra_cols, 1)

\* _report_extra_columns
ReportExtraColumns(src, tgt, t) ==
    LET extra_cols == Sorted(GetColumns(tgt, t) \ GetColumns(src, t))
        ExtraColumn(c) ==
            <<Report(Comment("EXTRA: column exists only in target",
                             t, c, NoName, 0))>>
    IN FlatMap(ExtraColumn, extra_cols, 1)

\* ReportRiskyDifferences reporting any difference of nullability
ReportRiskyDifferencesEitherWay(src, tgt, t) ==
    LET tgt_cols == GetColumns(tgt, t)
        Risky(c) ==
            IF c \notin tgt_cols THEN <<>>
            ELSE LET s == src.columns[t][c]
                     g == tgt.columns[t][c]
                 IN (IF s.type_sql # g.type_sql
                     THEN <<Report(Comment("RISKY: type mismatch",
                                           t, c, NoName, 0))>>
                     ELSE <<>>)
                    \o
                    (IF s.nullable # g.nullable
                     THEN <<Report(Comment("RISKY: nullable mismatch",
                                           t, c, NoName, 0))>>
                     ELSE <<>>)
    IN FlatMap(Risky, Sorted(GetColumns(src, t)), 1)

\* ReportRiskyDifferences reporting a nullable source column that is NOT
\* NULL in the target as well
ReportRiskyDifferencesLoosenedToo(src, tgt, t) ==
    LET tgt_cols == GetColumns(tgt, t)
        Risky(c) ==
            IF c \notin tgt_cols THEN <<>>
            ELSE LET s == src.columns[t][c]
                     g == tgt.columns[t][c]
                 IN (IF s.type_sql # g.type_sql
                     THEN <<Report(Comment("RISKY: type mismatch",
                                           t, c, NoName, 0))>>
                     ELSE <<>>)
                    \o
                    (IF \/ (s.nullable = FALSE /\ g.nullable = TRUE)
                        \/ (s.nullable = TRUE /\ g.nullable = FALSE)
                     THEN <<Report(Comment("RISKY: nullable mismatch",
                                           t, c, NoName, 0))>>
                     ELSE <<>>)
    IN FlatMap(Risky, Sorted(GetColumns(src, t)), 1)

\* ReportRiskyDifferences that compares the types only
ReportRiskyDifferencesOfTypes(src, tgt, t) ==
    LET tgt_cols == GetColumns(tgt, t)
        Risky(c) ==
            IF c \notin tgt_cols THEN <<>>
            ELSE IF src.columns[t][c].type_sql # tgt.columns[t][c].type_sql
                 THEN <<Report(Comment("RISKY: type mismatch",
                                       t, c, NoName, 0))>>
                 ELSE <<>>
    IN FlatMap(Risky, Sorted(GetColumns(src, t)), 1)

\* _report_risky_differences
ReportRiskyDifferences(src, tgt, t) ==
    LET tgt_cols == GetColumns(tgt, t)
        Risky(c) ==
            IF c \notin tgt_cols THEN <<>>
            ELSE LET s == src.columns[t][c]
                     g == tgt.columns[t][c]
                 IN (IF s.type_sql # g.type_sql
                     THEN <<Report(Comment("RISKY: type mismatch",
                                           t, c, NoName, 0))>>
                     ELSE <<>>)
                    \o
                    (IF s.nullable = FALSE /\ g.nullable = TRUE
                     THEN <<Report(Comment("RISKY: nullable mismatch",
                                           t, c, NoName, 0))>>
                     ELSE <<>>)
    IN FlatMap(Risky, Sorted(GetColumns(src, t)), 1)

\* inspector.get_indexes(table) of the target; a table the target does not
\* have makes the inspector raise, which the planner turns into []
TargetIndexes(tgt, t) == IF t \in tgt.tables THEN tgt.indexes[t] ELSE <<>>

\* Table(...).indexes of the source: the reflected indexes, a Python set
ReflectedIndexes(src, t) ==
    LET IsReflected(i) == i.reflected IN SelectSeq(src.indexes[t], IsReflected)

CreateIndexOp(t, info) ==
    Operation("create_index",
              Sql("CREATE INDEX", t, 0, "", NoColumns, <<>>,
                  IndexInfo(info.name, info.column_names, info.unique, FALSE),
                  FALSE),
              Comment("Create index", 0, 0, info.name, 0))

\* PlanAddMissingIndexes that never looks at the indexes of the target
PlanAddMissingIndexesBlind(src, tgt, t, iteration) ==
    LET FromReflection(idx) ==
            IF idx.name # NoName THEN <<CreateIndexOp(t, idx)>> ELSE <<>>
        ops == FlatMap(FromReflection, iteration, 1)
        planned_names == {ops[k].comment.name : k \in DOMAIN ops}
        FromInspector(info) ==
            IF \/ info.name = NoName
               \/ info.column_names = <<>>
               \/ info.name \in planned_names
            THEN <<>> ELSE <<CreateIndexOp(t, info)>>
    IN ops \o FlatMap(FromInspector, src.indexes[t], 1)

\* PlanAddMissingIndexes without the pass over inspector.get_indexes of the
\* source
PlanAddMissingIndexesReflectedOnly(src, tgt, t, iteration) ==
    LET tgt_indexes == TargetIndexes(tgt, t)
        tgt_index_names ==
            {tgt_indexes[k].name : k \in DOMAIN tgt_indexes} \ {NoName}
        FromReflection(idx) ==
            IF idx.name # NoName /\ idx.name \notin tgt_index_names
            THEN <<CreateIndexOp(t, idx)>> ELSE <<>>
    IN FlatMap(FromReflection, iteration, 1)

\* _plan_add_missing_indexes; iteration is the order in which the set
\* Table(...).indexes happens to be iterated
PlanAddMissingIndexes(src, tgt, t, iteration) ==
    LET tgt_indexes == TargetIndexes(tgt, t)
        tgt_index_names ==
            {tgt_indexes[k].name : k \in DOMAIN tgt_indexes} \ {NoName}
        FromReflection(idx) ==
            IF idx.name # NoName /\ idx.name \notin tgt_index_names
            THEN <<CreateIndexOp(t, idx)>> ELSE <<>>
        ops == FlatMap(FromReflection, iteration, 1)
        planned_names == {ops[k].comment.name : k \in DOMAIN ops}
        FromInspector(info) ==
            IF \/ info.name = NoName
               \/ info.column_names = <<>>
               \/ info.name \in tgt_index_names
               \/ info.name \in planned_names
            THEN <<>> ELSE <<CreateIndexOp(t, info)>>
    IN ops \o FlatMap(FromInspector, src.indexes[t], 1)

\* FkSignature without the ON DELETE and ON UPDATE actions
FkSignatureNoActions(fk) ==
    <<fk.constrained_columns,
      IF fk.referred_schema # "" THEN fk.referred_schema ELSE SchemaName,
      fk.referred_table, fk.referred_columns>>

\* _fk_signature
FkSignature(fk) ==
    <<fk.constrained_columns,
      IF fk.referred_schema # "" THEN fk.referred_schema ELSE SchemaName,
      fk.referred_table, fk.referred_columns, fk.ondelete, fk.onupdate>>

MaxFkNameLen == 60

\* MakeFkName without the cut at the maximum length
MakeFkNameWhole(table_name, col_names, ref_name) ==
    <<"f", "k", "_">> \o table_name \o <<"_">>
    \o Join(col_names) \o <<"_">>
    \o (IF ref_name = NoName THEN <<"r", "e", "f">> ELSE ref_name)

\* _make_fk_name, on the text of the names
MakeFkName(table_name, col_names, ref_name) ==
    LET name == <<"f", "k", "_">> \o table_name \o <<"_">>
                \o Join(col_names) \o <<"_">>
                \o (IF ref_name = NoName THEN <<"r", "e", "f">> ELSE ref_name)
    IN SubSeq(name, 1, Min(MaxFkNameLen, Len(name)))

\* name = fk.get('name') or self._make_fk_name(table_name, fk)
FkConstraintName(fk_name, table_name, col_names, ref_name) ==
    IF fk_name # NoName THEN fk_name
    ELSE MakeFkName(table_name, col_names, ref_name)

\* BuildFkOperation that builds the operation from whatever it is given
BuildFkOperationAlways(t, fk, dialect) ==
    LET name ==
            FkConstraintName(
                fk.name, TableName(t),
                [k \in DOMAIN fk.constrained_columns |->
                    ColName(fk.constrained_columns[k])],
                IF fk.referred_table = 0 THEN NoName
                ELSE TableName(fk.referred_table))
    IN <<Operation("add_foreign_key",
                   Sql("ADD CONSTRAINT", t, 0, "", NoColumns,
                       <<[fk EXCEPT !.name = name]>>, NoIndex,
                       dialect = "postgresql"),
                   Comment("Add foreign key", t, 0, name, 0))>>

\* _build_fk_operation: <<>> stands for None
BuildFkOperation(t, fk, dialect) ==
    IF fk.referred_table = 0 THEN <<>>
    ELSE LET name ==
                 FkConstraintName(
                     fk.name, TableName(t),
                     [k \in DOMAIN fk.constrained_columns |->
                         ColName(fk.constrained_columns[k])],
                     TableName(fk.referred_table))
         IN IF fk.constrained_columns = <<>> \/ fk.referred_columns = <<>>
            THEN <<>>
            ELSE <<Operation("add_foreign_key",
                             Sql("ADD CONSTRAINT", t, 0, "", NoColumns,
                                 <<[fk EXCEPT !.name = name]>>, NoIndex,
                                 dialect = "postgresql"),
                             Comment("Add foreign key", t, 0, name, 0))>>

\* PlanForeignKeys that never compares with the foreign keys of the target
PlanForeignKeysAll(t, src_fks, tgt_fks, compare, dialect) ==
    LET Plan(fk) == BuildFkOperation(t, fk, dialect)
    IN FlatMap(Plan, src_fks, 1)

\* _plan_foreign_keys; compare = FALSE stands for tgt_fks=None
PlanForeignKeys(t, src_fks, tgt_fks, compare, dialect) ==
    LET tgt_sigs == {FkSignature(tgt_fks[k]) : k \in DOMAIN tgt_fks}
        Plan(fk) ==
            IF compare /\ FkSignature(fk) \in tgt_sigs THEN <<>>
            ELSE BuildFkOperation(t, fk, dialect)
    IN FlatMap(Plan, src_fks, 1)

\* _plan_add_foreign_keys_for_new_table
PlanAddForeignKeysForNewTable(src, t, dialect) ==
    IF IsSqlite(dialect) THEN <<>>
    ELSE PlanForeignKeys(t, GetForeignKeys(src, t), <<>>, FALSE, dialect)

\* PlanAddMissingForeignKeys reporting each missing foreign key on its own
PlanAddMissingForeignKeysEach(src, tgt, t, dialect) ==
    LET src_fks == GetForeignKeys(src, t)
        tgt_fks == GetForeignKeys(tgt, t)
        tgt_sigs == {FkSignature(tgt_fks[k]) : k \in DOMAIN tgt_fks}
        ReportOne(fk) ==
            IF FkSignature(fk) \in tgt_sigs THEN <<>>
            ELSE <<Report(Comment(
                     "RISKY: SQLite cannot add FK via ALTER TABLE",
                     t, 0, NoName, 1))>>
    IN IF IsSqlite(dialect) THEN FlatMap(ReportOne, src_fks, 1)
       ELSE PlanForeignKeys(t, src_fks, tgt_fks, TRUE, dialect)

\* _plan_add_missing_foreign_keys
PlanAddMissingForeignKeys(src, tgt, t, dialect) ==
    LET src_fks == GetForeignKeys(src, t)
        tgt_fks == GetForeignKeys(tgt, t)
    IN IF IsSqlite(dialect)
       THEN LET src_sigs == {FkSignature(src_fks[k]) : k \in DOMAIN src_fks}
                tgt_sigs == {FkSignature(tgt_fks[k]) : k \in DOMAIN tgt_fks}
                missing == src_sigs \ tgt_sigs
            IN IF missing = {} THEN <<>>
               ELSE <<Report(Comment(
                        "RISKY: SQLite cannot add FK via ALTER TABLE",
                        t, 0, NoName, Cardinality(missing)))>>
       ELSE PlanForeignKeys(t, src_fks, tgt_fks, TRUE, dialect)

\* MissingTableNames forgetting the tables the target has
MissingTableNamesAll(src_tables, tgt_tables) == src_tables

\* src_tables - tgt_tables
MissingTableNames(src_tables, tgt_tables) == src_tables \ tgt_tables

\* Diff with the index pass of the common tables before their column pass
DiffIndexesBeforeColumns(src, tgt, dialect, iteration) ==
    LET src_tables == GetTableNames(src)
        tgt_tables == GetTableNames(tgt)
        extra_tables == Sorted(tgt_tables \ src_tables)
        sorted == SortMissingTablesByFk(
                      src.fks, Sorted(MissingTableNames(src_tables, tgt_tables)))
        missing_tables == sorted.order
        common_tables == Sorted(src_tables \cap tgt_tables)
        NewTable(t) ==
            PlanCreateTable(src, t, IsSqlite(dialect))
            \o PlanAddMissingIndexes(src, tgt, t, iteration[t])
        ColumnPass(t) ==
            ReportExtraColumns(src, tgt, t) \o PlanAddMissingColumns(src, tgt, t)
        IndexPass(t) == PlanAddMissingIndexes(src, tgt, t, iteration[t])
        NewTableFks(t) == PlanAddForeignKeysForNewTable(src, t, dialect)
        CommonFks(t) == PlanAddMissingForeignKeys(src, tgt, t, dialect)
        fk_ops ==
            (IF ~IsSqlite(dialect)
             THEN FlatMap(NewTableFks, missing_tables, 1) ELSE <<>>)
            \o FlatMap(CommonFks, common_tables, 1)
        RiskPass(t) == ReportRiskyDifferences(src, tgt, t)
    IN [ops |-> FlatMap(ExtraTableReport, extra_tables, 1)
                \o FlatMap(NewTable, missing_tables, 1)
                \o FlatMap(IndexPass, common_tables, 1)
                \o FlatMap(ColumnPass, common_tables, 1)
                \o fk_ops
                \o FlatMap(RiskPass, common_tables, 1),
        warned |-> sorted.warned]

\* diff(): the plan and whether the cycle warning was logged.  iteration[t]
\* is the order in which Table(t).indexes is iterated in this call.
Diff(src, tgt, dialect, iteration) ==
    LET src_tables == GetTableNames(src)
        tgt_tables == GetTableNames(tgt)
        extra_tables == Sorted(tgt_tables \ src_tables)
        sorted == SortMissingTablesByFk(
                      src.fks, Sorted(MissingTableNames(src_tables, tgt_tables)))
        missing_tables == sorted.order
        common_tables == Sorted(src_tables \cap tgt_tables)
        NewTable(t) ==
            PlanCreateTable(src, t, IsSqlite(dialect))
            \o PlanAddMissingIndexes(src, tgt, t, iteration[t])
        ColumnPass(t) ==
            ReportExtraColumns(src, tgt, t) \o PlanAddMissingColumns(src, tgt, t)
        IndexPass(t) == PlanAddMissingIndexes(src, tgt, t, iteration[t])
        NewTableFks(t) == PlanAddForeignKeysForNewTable(src, t, dialect)
        CommonFks(t) == PlanAddMissingForeignKeys(src, tgt, t, dialect)
        fk_ops ==
            (IF ~IsSqlite(dialect)
             THEN FlatMap(NewTableFks, missing_tables, 1) ELSE <<>>)
            \o FlatMap(CommonFks, common_tables, 1)
        RiskPass(t) == ReportRiskyDifferences(src, tgt, t)
    IN [ops |-> FlatMap(ExtraTableReport, extra_tables, 1)
                \o FlatMap(NewTable, missing_tables, 1)
                \o FlatMap(ColumnPass, common_tables, 1)
                \o FlatMap(IndexPass, common_tables, 1)
                \o fk_ops
                \o FlatMap(RiskPass, common_tables, 1),
        warned |-> sorted.warned]

\* the iteration orders the reflected index sets of the source can take
RECURSIVE IterationsUpTo(_, _)
IterationsUpTo(src, n) ==
    IF n = 0 THEN {<<>>}
    ELSE {Append(it, p) : it \in IterationsUpTo(src, n - 1),
                          p \in Perms(ReflectedIndexes(src, n))}

Iterations(src) == IterationsUpTo(src, MaxTables)

\* ------------------------------------------------------------------------
\* Executing one statement on the target: conn.execute(text(op.sql))
\* ------------------------------------------------------------------------
IndexNamesOf(db, t) == {db.indexes[t][k].name : k \in DOMAIN db.indexes[t]}

HasColumns(db, t, cols) ==
    \A k \in DOMAIN cols : cols[k] \in GetColumns(db, t)

\* whether the database accepts the statement
CanExecute(sql, db, dialect) ==
    CASE sql.stmt = "CREATE TABLE" ->
            /\ sql.table \notin db.tables
            /\ IsSqlite(dialect) \/
                 \A k \in DOMAIN sql.fks :
                    sql.fks[k].referred_table \in db.tables \cup {sql.table}
      [] sql.stmt = "ADD COLUMN" ->
            /\ sql.table \in db.tables
            /\ sql.column \notin GetColumns(db, sql.table)
      [] sql.stmt = "CREATE INDEX" ->
            /\ sql.table \in db.tables
            /\ HasColumns(db, sql.table, sql.index.column_names)
            /\ IF dialect = "mysql"
               THEN sql.index.name \notin IndexNamesOf(db, sql.table)
               ELSE \A t \in db.tables : sql.index.name \notin IndexNamesOf(db, t)
      [] sql.stmt = "ADD CONSTRAINT" ->
            /\ ~IsSqlite(dialect)
            /\ sql.table \in db.tables
            /\ sql.fks[1].referred_table \in db.tables
            /\ HasColumns(db, sql.table, sql.fks[1].constrained_columns)
            /\ HasColumns(db, sql.fks[1].referred_table,
                          sql.fks[1].referred_columns)
            /\ \A k \in DOMAIN db.fks[sql.table] :
                  db.fks[sql.table][k].name # sql.fks[1].name
      [] sql.stmt = "DROP TABLE" -> sql.table \in db.tables
      [] sql.stmt = "-- no-op" -> TRUE
      [] OTHER -> FALSE

\* the database after the statement
Execute(sql, db) ==
    CASE sql.stmt = "CREATE TABLE" ->
            [db EXCEPT !.tables = @ \cup {sql.table},
                       !.columns[sql.table] = sql.columns,
                       !.fks[sql.table] = sql.fks,
                       !.indexes[sql.table] = <<>>,
                       !.rows[sql.table] = <<>>]
      [] sql.stmt = "ADD COLUMN" ->
            [db EXCEPT !.columns[sql.table][sql.column] =
                            Column(sql.type_sql, TRUE),
                       !.rows[sql.table] =
                            [k \in DOMAIN @ |->
                                [@[k] EXCEPT ![sql.column] = "NULL"]]]
      [] sql.stmt = "CREATE INDEX" ->
            [db EXCEPT !.indexes[sql.table] =
                            Append(@, IndexInfo(sql.index.name,
                                                sql.index.column_names,
                                                sql.index.unique, TRUE))]
      [] sql.stmt = "ADD CONSTRAINT" ->
            [db EXCEPT !.fks[sql.table] = Append(@, sql.fks[1])]
      [] sql.stmt = "DROP TABLE" ->
            [db EXCEPT !.tables = @ \ {sql.table},
                       !.columns[sql.table] = NoColumns,
                       !.fks[sql.table] = <<>>,
                       !.indexes[sql.table] = <<>>,
                       !.rows[sql.table] = <<>>]
      [] OTHER -> db

\* ------------------------------------------------------------------------
\* State
\* ------------------------------------------------------------------------
VARIABLES
    source,       \* schema of the reference database
    target,       \* committed schema and rows of the target database
    dialect,      \* target_engine.dialect.name
    config,       \* lock_timeout_seconds, statement_timeout_seconds
    faults,       \* the listings of the inspectors that raise
    plan,         \* the list returned by the last diff()
    last_call,    \* "none", "diff" or "apply": the last method called
    pc,           \* position of apply(): "idle", "timeouts" or "loop"
    ops_list,     \* ops_list of the current or last apply()
    i,            \* index of the operation apply() is at
    conn,         \* the target as seen inside the open transaction
    tx,           \* "none", "open", "committed" or "rolled back"
    executed,     \* statements the last call handed to conn.execute
    printed,      \* operations the last call printed
    result,       \* how the last call ended: "none", "running", "returned"
                  \* or "raised"
    logged,       \* messages logged by the last call
    pre,          \* the target when the last call was made
    dry_run_arg,  \* the dry_run argument of the last apply(): "omitted",
                  \* "true" or "false"; "none" when the last call was not apply
    missing,      \* argument of _sort_missing_tables_by_fk called directly
    fk_lists,     \* what the inspector passed to it returns per table
    sort_result,  \* its return value and whether it warned
    fk_arg,       \* table_name and fk of _build_fk_operation called directly
    fk_name,      \* the constraint name it chose
    sort_pc,      \* where _sort_missing_tables_by_fk run step by step is
    sort_deps,    \* its deps
    sort_ready,   \* its ready
    sort_out      \* its out

vars == <<source, target, dialect, config, faults, plan, last_call, pc, ops_list, i,
          conn, tx, executed, printed, result, logged, pre, dry_run_arg,
          missing, fk_lists, sort_result, fk_arg, fk_name,
          sort_pc, sort_deps, sort_ready, sort_out>>

dbVars == <<source, target, dialect, config, faults>>
applyVars ==
    <<pc, ops_list, i, conn, tx, executed, printed, result, pre, dry_run_arg>>
sortVars == <<missing, fk_lists, sort_result>>
nameVars == <<fk_arg, fk_name>>
loopVars == <<sort_pc, sort_deps, sort_ready, sort_out>>

NotSorted == [order |-> <<>>, warned |-> FALSE, called |-> FALSE]
NotNamed == [name |-> NoName, called |-> FALSE]
FkArg(table_name, name, constrained_columns, referred_table) ==
    [table_name |-> table_name, name |-> name,
     constrained_columns |-> constrained_columns,
     referred_table |-> referred_table]
NoFkArg == FkArg(NoName, NoName, <<>>, NoName)

\* ------------------------------------------------------------------------
\* diff()
\* ------------------------------------------------------------------------
\* the listings an inspector can fail to give
FaultKinds == {"source indexes", "source foreign keys",
               "target indexes", "target foreign keys"}

\* Seen that takes the listings of the target as they would be without
\* the exception
SeenDespiteFaults(tgt, f) == tgt

\* what diff() gets from the inspector of the target: the listings of
\* indexes and foreign keys are inside try/except and count as empty when
\* they raise
Seen(tgt, f) ==
    [tgt EXCEPT
        !.indexes = IF "target indexes" \in f
                    THEN [t \in Tables |-> <<>>] ELSE @,
        !.fks = IF "target foreign keys" \in f
                THEN [t \in Tables |-> <<>>] ELSE @]

\* whether an exception leaves diff(): the listings of the source are
\* called outside any try, for every table of the source
DiffRaises(src, f) ==
    /\ GetTableNames(src) # {}
    /\ f \cap {"source indexes", "source foreign keys"} # {}

DoDiff ==
    /\ pc = "idle"
    /\ IF DiffRaises(source, faults)
       THEN /\ plan' = plan
            /\ logged' = {}
            /\ result' = "raised"
       ELSE /\ \E it \in Iterations(source) :
                  \E d \in {Diff(source, Seen(target, faults), dialect, it)} :
                     /\ plan' = d.ops
                     /\ logged' = IF d.warned THEN {"RISKY: cycle detected"}
                                  ELSE {}
            /\ result' = "returned"
    /\ last_call' = "diff"
    /\ ops_list' = <<>>
    /\ i' = 0
    /\ tx' = "none"
    /\ executed' = <<>>
    /\ printed' = <<>>
    /\ pre' = target
    /\ dry_run_arg' = "none"
    /\ UNCHANGED <<dbVars, pc, conn, sortVars, nameVars, loopVars>>

\* ------------------------------------------------------------------------
\* apply()
\* ------------------------------------------------------------------------
\* dry_run defaulting to False
DefaultDryRunOff == FALSE

\* the default of the dry_run argument
DefaultDryRun == TRUE

DryRunArgs == {"omitted", "true", "false"}
DryRun(arg) == IF arg = "omitted" THEN DefaultDryRun ELSE arg = "true"

Statement(index, stmt, value, ok) ==
    [index |-> index, stmt |-> stmt, value |-> value, ok |-> ok]

\* the branch "if dry_run": print every operation and return
ApplyDryRun(ops, arg) ==
    /\ pc = "idle"
    /\ dry_run_arg' = arg
    /\ ops_list' = ops
    /\ printed' = ops
    /\ logged' = {"Dry-run finished. No changes applied."}
    /\ result' = "returned"
    /\ last_call' = "apply"
    /\ pre' = target
    /\ i' = 0
    /\ tx' = "none"
    /\ executed' = <<>>
    /\ conn' = target
    /\ UNCHANGED <<dbVars, plan, pc, sortVars, nameVars, loopVars>>

\* "with self.target_engine.begin() as conn"
ApplyBegin(ops, arg) ==
    /\ pc = "idle"
    /\ dry_run_arg' = arg
    /\ pc' = "timeouts"
    /\ ops_list' = ops
    /\ printed' = <<>>
    /\ logged' = {}
    /\ result' = "running"
    /\ last_call' = "apply"
    /\ pre' = target
    /\ i' = 1
    /\ tx' = "open"
    /\ executed' = <<>>
    /\ conn' = target
    /\ UNCHANGED <<dbVars, plan, sortVars, nameVars, loopVars>>

\* ApplyTimeoutsStatements without the test of the dialect
ApplyTimeoutsStatementsAnyDialect(d, cfg) ==
    (IF cfg.lock_timeout_seconds > 0
     THEN <<Statement(0, "SET lock_timeout", cfg.lock_timeout_seconds, TRUE)>>
     ELSE <<>>)
    \o
    (IF cfg.statement_timeout_seconds > 0
     THEN <<Statement(0, "SET statement_timeout",
                      cfg.statement_timeout_seconds, TRUE)>>
     ELSE <<>>)

\* _apply_timeouts: the SET statements it issues
ApplyTimeoutsStatements(d, cfg) ==
    IF d # "postgresql" THEN <<>>
    ELSE (IF cfg.lock_timeout_seconds > 0
          THEN <<Statement(0, "SET lock_timeout",
                           cfg.lock_timeout_seconds, TRUE)>>
          ELSE <<>>)
         \o
         (IF cfg.statement_timeout_seconds > 0
          THEN <<Statement(0, "SET statement_timeout",
                           cfg.statement_timeout_seconds, TRUE)>>
          ELSE <<>>)

ApplyTimeouts ==
    /\ pc = "timeouts"
    /\ pc' = "loop"
    /\ executed' = executed \o ApplyTimeoutsStatements(dialect, config)
    /\ UNCHANGED <<dbVars, plan, last_call, ops_list, i, conn, tx, printed,
                   result, logged, pre, dry_run_arg, sortVars, nameVars, loopVars>>

\* Skipped testing the text of the statement instead of the kind
SkippedByText(op) == op.sql.stmt = "-- no-op"

\* whether the loop of apply() passes over the operation without executing
Skipped(op) == op.kind = "report"

\* "if op.kind == 'report': continue"
ApplySkipReport ==
    /\ pc = "loop"
    /\ i <= Len(ops_list)
    /\ Skipped(ops_list[i])
    /\ logged' = logged \cup {"Skipping report op"}
    /\ i' = i + 1
    /\ UNCHANGED <<dbVars, plan, last_call, pc, ops_list, conn, tx, executed,
                   printed, result, pre, dry_run_arg, sortVars, nameVars, loopVars>>

\* conn.execute(text(op.sql)) returns
ApplyExecute ==
    /\ pc = "loop"
    /\ i <= Len(ops_list)
    /\ ~Skipped(ops_list[i])
    /\ CanExecute(ops_list[i].sql, conn, dialect)
    /\ conn' = Execute(ops_list[i].sql, conn)
    /\ executed' = Append(executed,
                          Statement(i, ops_list[i].sql.stmt, 0, TRUE))
    /\ i' = i + 1
    /\ UNCHANGED <<dbVars, plan, last_call, pc, ops_list, tx, printed,
                   result, logged, pre, dry_run_arg, sortVars, nameVars, loopVars>>

\* the states the target can be left in once the transaction was left by an
\* exception.  The rollback of engine.begin() undoes the statements only
\* where DDL is transactional (PostgreSQL); MySQL commits implicitly at
\* every DDL statement, and the default sqlite3 driver opens no transaction
\* for DDL, so that there the statements already run can stay.
RolledBack(committed, inside, d) ==
    IF d = "postgresql" THEN {committed} ELSE {committed, inside}

\* ApplyFail that logs the failure and goes on with the next operation
ApplyFailAndGoOn ==
    /\ pc = "loop"
    /\ i <= Len(ops_list)
    /\ ~Skipped(ops_list[i])
    /\ ~CanExecute(ops_list[i].sql, conn, dialect)
    /\ executed' = Append(executed,
                          Statement(i, ops_list[i].sql.stmt, 0, FALSE))
    /\ logged' = logged \cup {"Apply failed"}
    /\ i' = i + 1
    /\ UNCHANGED <<dbVars, plan, last_call, pc, ops_list, conn, tx, printed,
                   result, pre, dry_run_arg, sortVars, nameVars, loopVars>>

\* conn.execute(text(op.sql)) raises because the database rejects the
\* statement: the transaction is left by the exception, which is logged and
\* re-raised
ApplyFail ==
    /\ pc = "loop"
    /\ i <= Len(ops_list)
    /\ ~Skipped(ops_list[i])
    /\ ~CanExecute(ops_list[i].sql, conn, dialect)
    /\ executed' = Append(executed,
                          Statement(i, ops_list[i].sql.stmt, 0, FALSE))
    /\ target' \in RolledBack(target, conn, dialect)
    /\ conn' = target'
    /\ tx' = "rolled back"
    /\ logged' = logged \cup {"Apply failed",
                              "Schema correction aborted due to error."}
    /\ result' = "raised"
    /\ pc' = "idle"
    /\ UNCHANGED <<source, dialect, config, faults, plan, last_call, ops_list, i,
                   printed, pre, dry_run_arg, sortVars, nameVars, loopVars>>

\* the loop is over: the with block commits and apply() returns
ApplyCommit ==
    /\ pc = "loop"
    /\ i > Len(ops_list)
    /\ target' = conn
    /\ tx' = "committed"
    /\ logged' = logged \cup {"Apply finished successfully."}
    /\ result' = "returned"
    /\ pc' = "idle"
    /\ UNCHANGED <<source, dialect, config, faults, plan, last_call, ops_list, i,
                   conn, executed, printed, pre, dry_run_arg, sortVars, nameVars, loopVars>>

\* the lists apply() is called with: the plan of diff() as main.py passes
\* it, its non-report operations as the tests pass them, and hand-made lists
SafeOps(ops) == LET NotReport(op) == op.kind # "report" IN SelectSeq(ops, NotReport)

\* Operation(kind='add_column', sql='THIS IS BAD SQL;', comment='boom')
BadOp ==
    Operation("add_column",
              Sql("THIS IS BAD SQL", 0, 0, "", NoColumns, <<>>, NoIndex, FALSE),
              Comment("boom", 0, 0, NoName, 0))

\* a report whose sql is not the no-op marker
LoadedReport(t) ==
    Operation("report",
              Sql("DROP TABLE", t, 0, "", NoColumns, <<>>, NoIndex, FALSE),
              Comment("just a report", t, 0, NoName, 0))

ApplyInputs ==
    {plan, SafeOps(plan), SafeOps(plan) \o <<BadOp>>}
    \cup {<<LoadedReport(t)>> \o SafeOps(plan) :
            t \in {u \in target.tables : \A v \in target.tables : u <= v}}

\* apply(ops, dry_run=...) is called
ApplyCallDryRun ==
    \E ops \in ApplyInputs, arg \in DryRunArgs :
        DryRun(arg) /\ ApplyDryRun(ops, arg)

ApplyCallExecute ==
    \E ops \in ApplyInputs, arg \in DryRunArgs :
        ~DryRun(arg) /\ ApplyBegin(ops, arg)

\* ------------------------------------------------------------------------
\* _sort_missing_tables_by_fk called on its own, as the unit tests do
\* ------------------------------------------------------------------------
SortCall ==
    /\ ~sort_result.called
    /\ LET r == SortMissingTablesByFk(fk_lists, missing)
       IN /\ sort_result' = [order |-> r.order, warned |-> r.warned,
                             called |-> TRUE]
          /\ logged' = IF r.warned THEN {"RISKY: cycle detected"} ELSE {}
    /\ UNCHANGED <<dbVars, plan, last_call, applyVars, missing, fk_lists,
                   nameVars, loopVars>>

\* ------------------------------------------------------------------------
\* _sort_missing_tables_by_fk one iteration of "while ready" at a time
\* ------------------------------------------------------------------------
\* deps and ready are built
SortStart ==
    /\ sort_pc = "idle"
    /\ ~sort_result.called
    /\ LET deps == SortDeps(fk_lists, missing)
           NoDeps(t) == deps[t] = {}
       IN /\ sort_deps' = deps
          /\ sort_ready' = SelectSeq(missing, NoDeps)
    /\ sort_out' = <<>>
    /\ sort_pc' = "while"
    /\ UNCHANGED <<dbVars, plan, last_call, applyVars, logged, sortVars,
                   nameVars>>

\* n = ready.pop(); out.append(n); for t in missing: ...
SortIterate ==
    /\ sort_pc = "while"
    /\ sort_ready # <<>>
    /\ \E n \in {sort_ready[Len(sort_ready)]} :
          \E r \in {Release(missing, 1, n, sort_deps,
                            SubSeq(sort_ready, 1, Len(sort_ready) - 1),
                            Append(sort_out, n))} :
              /\ sort_out' = Append(sort_out, n)
              /\ sort_deps' = r.deps
              /\ sort_ready' = r.ready
    /\ UNCHANGED <<dbVars, plan, last_call, applyVars, logged, sortVars,
                   nameVars, sort_pc>>

\* PickOrder returning out whatever its length
PickOrderAsFound(input, found) ==
    [order |-> found, warned |-> Len(found) # Len(input), called |-> TRUE]

\* "if len(out) != len(missing): ... return missing" and "return out"
PickOrder(input, found) ==
    IF Len(found) # Len(input)
    THEN [order |-> input, warned |-> TRUE, called |-> TRUE]
    ELSE [order |-> found, warned |-> FALSE, called |-> TRUE]

\* ready is empty: the function returns
SortReturn ==
    /\ sort_pc = "while"
    /\ sort_ready = <<>>
    /\ sort_result' = PickOrder(missing, sort_out)
    /\ logged' = IF sort_result'.warned THEN {"RISKY: cycle detected"}
                 ELSE {}
    /\ sort_pc' = "returned"
    /\ UNCHANGED <<dbVars, plan, last_call, applyVars, missing, fk_lists,
                   nameVars, sort_deps, sort_ready, sort_out>>

\* ------------------------------------------------------------------------
\* The choice of the constraint name in _build_fk_operation, on names of
\* any length
\* ------------------------------------------------------------------------
NameCall ==
    /\ ~fk_name.called
    /\ fk_arg.referred_table # NoName
    /\ fk_name' = [name |-> FkConstraintName(fk_arg.name, fk_arg.table_name,
                                             fk_arg.constrained_columns,
                                             fk_arg.referred_table),
                   called |-> TRUE]
    /\ UNCHANGED <<dbVars, plan, last_call, applyVars, logged, sortVars,
                   fk_arg, loopVars>>

\* ------------------------------------------------------------------------
\* Initial databases
\* ------------------------------------------------------------------------
PrimaryKey == Column("INTEGER", FALSE)

SourceColumnChoices ==
    {Absent, Column("INTEGER", TRUE), Column("INTEGER", FALSE)}
TargetColumnChoices ==
    SourceColumnChoices \cup {Column("VARCHAR(255)", TRUE)}

\* column 1 is the primary key, the other columns vary
Layouts(choices) ==
    {l \in [Cols -> choices \cup {PrimaryKey}] :
        /\ l[1] = PrimaryKey
        /\ \A c \in Cols \ {1} : l[c] \in choices}

\* the sets of at most n foreign-key edges <<table, referred table>> taken
\* among the candidates
RECURSIVE EdgeSets(_, _)
EdgeSets(candidates, n) ==
    IF n = 0 THEN {{}}
    ELSE LET smaller == EdgeSets(candidates, n - 1)
         IN smaller \cup {E \cup {e} : E \in smaller, e \in candidates}

\* the references from one table to another
References(nodes) == {e \in nodes \X nodes : e[1] # e[2]}

\* the column a foreign key of the scenario constrains
FkColumn(layout) == IF MaxCols >= 2 /\ layout[2].present THEN 2 ELSE 1

ScenarioFk(t, rt, layout, d, ondelete) ==
    ForeignKey(IF d = "postgresql"
               THEN <<"f", "k", Digits[t], Digits[rt]>> ELSE NoName,
               <<FkColumn(layout)>>, rt, <<1>>, ondelete, "")

\* the foreign keys of table t for the edge set E, in the order of the
\* referred tables
FkList(t, E, layout, d, ondelete) ==
    LET refs == Sorted({rt \in Tables : <<t, rt>> \in E})
    IN [k \in DOMAIN refs |-> ScenarioFk(t, refs[k], layout, d, ondelete)]

\* the indexes of table t of the source
SourceIndexes(t, il) ==
    CASE il = "one" -> <<IndexInfo(IndexName(t, 1), <<1>>, FALSE, TRUE)>>
      [] il = "two" -> <<IndexInfo(IndexName(t, 1), <<1>>, FALSE, TRUE),
                         IndexInfo(IndexName(t, 2), <<1>>, TRUE, TRUE)>>
      [] il = "inspector" -> <<IndexInfo(IndexName(t, 1), <<1>>, TRUE, FALSE)>>
      [] il = "mixed" -> <<IndexInfo(IndexName(t, 1), <<1>>, FALSE, TRUE),
                           IndexInfo(IndexName(t, 2), <<1>>, TRUE, FALSE)>>
      [] OTHER -> <<>>

Row(layout) == [c \in Cols |-> IF layout[c].present THEN "keep-me" ELSE "-"]

SourceDb(p) ==
    LET ts == {t \in Tables : p.presence[t] \in {"source", "both"}}
        edges == p.edges \cap (ts \X ts)
    IN [tables |-> ts,
        columns |-> [t \in Tables |-> IF t \in ts THEN p.sl ELSE NoColumns],
        indexes |-> [t \in Tables |->
                        IF t \in ts THEN SourceIndexes(t, p.il) ELSE <<>>],
        fks |-> [t \in Tables |->
                    IF t \in ts THEN FkList(t, edges, p.sl, p.dialect, "")
                    ELSE <<>>],
        rows |-> [t \in Tables |-> <<>>]]

TargetDb(p) ==
    LET ts == {t \in Tables : p.presence[t] \in {"target", "both"}}
        common == {t \in ts : p.presence[t] = "both"}
        kept == {e \in p.edges : /\ e[1] \in common
                                  /\ e[2] \in common
                                  /\ p.tl[FkColumn(p.sl)].present}
    IN [tables |-> ts,
        columns |-> [t \in Tables |-> IF t \in ts THEN p.tl ELSE NoColumns],
        indexes |-> [t \in Tables |->
                        IF t \in common /\ p.ti = "first"
                           /\ SourceIndexes(t, p.il) # <<>>
                        THEN <<SourceIndexes(t, p.il)[1]>> ELSE <<>>],
        fks |-> [t \in Tables |->
                    IF t \in common /\ p.tfk # "none"
                    THEN LET l == FkList(t, kept, p.sl, p.dialect,
                                         IF p.tfk = "differs" THEN "CASCADE"
                                         ELSE "")
                         IN IF p.tfk = "differs on update"
                            THEN [k \in DOMAIN l |->
                                     [l[k] EXCEPT !.onupdate = "CASCADE"]]
                            ELSE l
                    ELSE <<>>],
        rows |-> [t \in Tables |-> IF t \in ts THEN <<Row(p.tl)>> ELSE <<>>]]

Presences == [Tables -> {"source", "target", "both"}]

LayoutWith(second) ==
    [c \in Cols |-> IF c = 1 THEN PrimaryKey
                    ELSE IF c = 2 THEN second ELSE Absent]

Scenario(d, presence, sl, tl, edges, tfk, il, ti) ==
    [dialect |-> d, presence |-> presence, sl |-> sl, tl |-> tl,
     edges |-> edges, tfk |-> tfk, il |-> il, ti |-> ti]

SetupWith(p, f) ==
    /\ source = SourceDb(p)
    /\ target = TargetDb(p)
    /\ dialect = p.dialect
    /\ faults = f

\* the scenario with inspectors that answer every listing
Setup(p) == SetupWith(p, {})

SourceTables(presence) == {t \in Tables : presence[t] \in {"source", "both"}}

\* every combination of column layouts, no foreign keys and no indexes, on
\* a table both databases have, the other tables being all in the source,
\* all in the target or all in both
ColumnScenarios ==
    \E d \in Dialects, others \in {"source", "target", "both"},
       sl \in Layouts(SourceColumnChoices),
       tl \in Layouts(TargetColumnChoices) :
        Setup(Scenario(d, [t \in Tables |-> IF t = 1 THEN "both" ELSE others],
                       sl, tl, {}, "none", "none", "none"))

\* every set of at most MaxFks foreign keys from a table of the source to
\* another, on a column that is NOT NULL in the source and nullable in the
\* target, which has the foreign keys between its tables, as they are in
\* the source or with another ON DELETE
FkScenarios ==
    \E d \in Dialects, pr \in Presences, tfk \in {"same", "differs"} :
        \E E \in EdgeSets(References(SourceTables(pr)), MaxFks) :
            Setup(Scenario(d, pr, LayoutWith(Column("INTEGER", FALSE)),
                           LayoutWith(Column("INTEGER", TRUE)), E, tfk,
                           "none", "none"))

\* every index layout
IndexScenarios ==
    \E d \in Dialects, pr \in Presences,
       il \in {"one", "two", "inspector", "mixed"}, ti \in {"none", "first"} :
        Setup(Scenario(d, pr, LayoutWith(Absent), LayoutWith(Absent), {},
                       "none", il, ti))

\* columns, indexes and foreign keys (a chain and a cycle) together
MixedScenarios ==
    \E d \in Dialects, pr \in Presences,
       second \in {Absent, Column("VARCHAR(255)", TRUE)},
       E \in {{<<2, 1>>}, {<<1, 2>>, <<2, 1>>}},
       tfk \in {"none", "differs", "differs on update"},
       il \in {"one", "two"} :
        Setup(Scenario(d, pr, LayoutWith(Column("INTEGER", FALSE)),
                       LayoutWith(second), E, tfk, il, "first"))

\* the scenarios diff() and apply() are run on together: a missing NOT NULL
\* column with a chain of foreign keys, an extra column with a cycle of
\* foreign keys, a column that differs with a foreign key that differs
ApplyScenarios ==
    \E d \in Dialects, pr \in Presences :
        \/ Setup(Scenario(d, pr, LayoutWith(Column("INTEGER", FALSE)),
                          LayoutWith(Absent), {<<2, 1>>}, "none", "one",
                          "none"))
        \/ Setup(Scenario(d, pr, LayoutWith(Absent),
                          LayoutWith(Column("VARCHAR(255)", TRUE)),
                          {<<1, 2>>, <<2, 1>>}, "same", "one", "first"))
        \/ Setup(Scenario(d, pr, LayoutWith(Column("INTEGER", FALSE)),
                          LayoutWith(Column("VARCHAR(255)", TRUE)),
                          {<<2, 1>>}, "differs", "inspector", "none"))

\* the default and a non-default setting of the two timeouts
DefaultLockTimeout == 10
DefaultStatementTimeout == 0
Configs ==
    {[lock_timeout_seconds |-> DefaultLockTimeout,
      statement_timeout_seconds |-> DefaultStatementTimeout],
     [lock_timeout_seconds |-> 0, statement_timeout_seconds |-> 3]}

InitIdle ==
    /\ plan = <<>>
    /\ last_call = "none"
    /\ pc = "idle"
    /\ ops_list = <<>>
    /\ i = 0
    /\ conn = target
    /\ tx = "none"
    /\ executed = <<>>
    /\ printed = <<>>
    /\ result = "none"
    /\ logged = {}
    /\ pre = target
    /\ dry_run_arg = "none"
    /\ sort_pc = "idle"
    /\ sort_deps = <<>>
    /\ sort_ready = <<>>
    /\ sort_out = <<>>

InitNoSort ==
    /\ missing = <<>>
    /\ fk_lists = [t \in Tables |-> <<>>]
    /\ sort_result = NotSorted
    /\ fk_arg = NoFkArg
    /\ fk_name = NotNamed

\* diff() and apply() together
Init ==
    /\ ApplyScenarios
    /\ config \in Configs
    /\ InitIdle
    /\ InitNoSort

Next ==
    \/ DoDiff
    \/ ApplyCallDryRun
    \/ ApplyCallExecute
    \/ ApplyTimeouts
    \/ ApplySkipReport
    \/ ApplyExecute
    \/ ApplyFail
    \/ ApplyCommit

Spec == Init /\ [][Next]_vars

\* diff() alone, on every scenario
InitDiff ==
    /\ ColumnScenarios \/ FkScenarios \/ IndexScenarios \/ MixedScenarios
    /\ config = [lock_timeout_seconds |-> DefaultLockTimeout,
                 statement_timeout_seconds |-> DefaultStatementTimeout]
    /\ InitIdle
    /\ InitNoSort

NextDiff == DoDiff

SpecDiff == InitDiff /\ [][NextDiff]_vars

\* diff() with inspectors that raise on some listings: a table with an index
\* and a foreign key, which the target has too where it has the table
FaultScenarios ==
    \E d \in Dialects, pr \in Presences, f \in SUBSET FaultKinds :
        /\ f # {}
        /\ SetupWith(Scenario(d, pr, LayoutWith(Column("INTEGER", FALSE)),
                              LayoutWith(Column("INTEGER", TRUE)),
                              {<<2, 1>>}, "same", "one", "first"), f)

InitFaults ==
    /\ FaultScenarios
    /\ config = [lock_timeout_seconds |-> DefaultLockTimeout,
                 statement_timeout_seconds |-> DefaultStatementTimeout]
    /\ InitIdle
    /\ InitNoSort

NextFaults == DoDiff

\* a description of a foreign key that lacks something, as the unit test
\* of _build_fk_operation passes them
Defects ==
    {"no referred table", "no constrained columns", "no referred columns"}

DefectiveFk(defect) ==
    ForeignKey(NoName,
               IF defect = "no constrained columns" THEN <<>> ELSE <<1>>,
               IF defect = "no referred table" THEN 0 ELSE 1,
               IF defect = "no referred columns" THEN <<>> ELSE <<1>>,
               "", "")

\* diff() on a source whose inspector gives, for every table, such a
\* description after the foreign keys of the table, which the target has
DefectScenarios ==
    \E d \in Dialects, pr \in Presences, defect \in Defects,
       E \in {{}, {<<2, 1>>}} :
        LET p == Scenario(d, pr, LayoutWith(Column("INTEGER", FALSE)),
                          LayoutWith(Column("INTEGER", FALSE)), E, "same",
                          "none", "none")
            db == SourceDb(p)
        IN /\ source = [db EXCEPT !.fks =
                           [t \in Tables |->
                               IF t \in db.tables
                               THEN Append(db.fks[t], DefectiveFk(defect))
                               ELSE <<>>]]
           /\ target = TargetDb(p)
           /\ dialect = d
           /\ faults = {}

InitDefects ==
    /\ DefectScenarios
    /\ config = [lock_timeout_seconds |-> DefaultLockTimeout,
                 statement_timeout_seconds |-> DefaultStatementTimeout]
    /\ InitIdle
    /\ InitNoSort

NextDefects == DoDiff

SpecDefects == InitDefects /\ [][NextDefects]_vars

SpecFaults == InitFaults /\ [][NextFaults]_vars

\* _sort_missing_tables_by_fk called directly and through diff(): the
\* source holds every table, with any set of at most MaxEdges references
\* (self references included); the list is any list of distinct tables, in
\* any order, and the target holds the tables that are not in the list
DistinctLists(S) == UNION {Perms(Sorted(T)) : T \in SUBSET S}

SortScenario(d, list, E) ==
    [dialect |-> d,
     presence |-> [t \in Tables |->
                     IF t \in SeqToSet(list) THEN "source" ELSE "both"],
     sl |-> LayoutWith(Absent), tl |-> LayoutWith(Absent),
     edges |-> E, tfk |-> "none", il |-> "none", ti |-> "none"]

InitSort ==
    /\ \E list \in DistinctLists(Tables), E \in EdgeSets(Tables \X Tables, MaxEdges) :
          /\ Setup(SortScenario("postgresql", list, E))
          /\ missing = list
    /\ fk_lists = source.fks
    /\ config = [lock_timeout_seconds |-> DefaultLockTimeout,
                 statement_timeout_seconds |-> DefaultStatementTimeout]
    /\ InitIdle
    /\ sort_result = NotSorted
    /\ fk_arg = NoFkArg
    /\ fk_name = NotNamed

\* the orderer is called on the list, then diff() on the databases
NextSort == SortCall \/ (sort_result.called /\ DoDiff)

SpecSort == InitSort /\ [][NextSort]_vars

\* the orderer run step by step on the same lists; nothing else runs and
\* the interpreter always takes the next step
NextLoop == SortStart \/ SortIterate \/ SortReturn

SpecLoop == InitSort /\ [][NextLoop]_vars /\ WF_vars(NextLoop)

\* a name of n characters
Text(ch, n) == [k \in 1..n |-> ch]

\* the longest table and column names tried
MaxNameLen == 20

\* a name the truncation would cut
LongName == Text("n", MaxFkNameLen + MaxNameLen)

\* _build_fk_operation on a foreign key of one or two columns, with or
\* without a name of its own
InitName ==
    /\ \E tl \in 1..MaxNameLen, cl \in {1, MaxNameLen}, nc \in 1..2,
          rl \in 1..MaxNameLen,
          given \in {NoName, <<"f", "k", "1">>, LongName} :
          fk_arg = FkArg(Text("t", tl), given,
                         [k \in 1..nc |-> Text(Digits[k], cl)],
                         Text("r", rl))
    /\ fk_name = NotNamed
    /\ source = [tables |-> {},
                 columns |-> [t \in Tables |-> NoColumns],
                 indexes |-> [t \in Tables |-> <<>>],
                 fks |-> [t \in Tables |-> <<>>],
                 rows |-> [t \in Tables |-> <<>>]]
    /\ target = source
    /\ dialect = "postgresql"
    /\ faults = {}
    /\ config = [lock_timeout_seconds |-> DefaultLockTimeout,
                 statement_timeout_seconds |-> DefaultStatementTimeout]
    /\ InitIdle
    /\ missing = <<>>
    /\ fk_lists = [t \in Tables |-> <<>>]
    /\ sort_result = NotSorted

NextName == NameCall

SpecName == InitName /\ [][NextName]_vars

\* ------------------------------------------------------------------------
\* Vocabulary of the properties
\* ------------------------------------------------------------------------
\* the tables a table references
Refs(fks, t) == {fks[t][k].referred_table : k \in DOMAIN fks[t]}

\* the tables of M reached from the set S by at most n more references
\* that stay inside M
RECURSIVE Reach(_, _, _, _)
Reach(M, fks, S, n) ==
    IF n = 0 THEN S
    ELSE Reach(M, fks, S \cup UNION {Refs(fks, u) \cap M : u \in S}, n - 1)

\* some table of M references itself through tables of M
HasCycle(M, fks) ==
    \E t \in M : t \in Reach(M, fks, Refs(fks, t) \cap M, Cardinality(M))

IsPermutation(s, r) ==
    /\ Len(s) = Len(r)
    /\ SeqToSet(s) = SeqToSet(r)
    /\ \A j, k \in DOMAIN s : s[j] = s[k] => j = k

\* in the list s every table comes after the tables of s it references
ParentsFirst(s, fks) ==
    \A j, k \in DOMAIN s : s[k] \in Refs(fks, s[j]) => k < j

\* the tables of the create_table operations of a plan, in plan order
CreatedTables(ops) ==
    LET IsCreate(op) == op.kind = "create_table"
        creates == SelectSeq(ops, IsCreate)
    IN [k \in DOMAIN creates |-> creates[k].sql.table]

MissingTables == source.tables \ target.tables

\* a column both databases have, whose rendered types differ or which is
\* NOT NULL in the source and nullable in the target
TypeMismatch(t, c) ==
    source.columns[t][c].type_sql # target.columns[t][c].type_sql
NullableMismatch(t, c) ==
    source.columns[t][c].nullable = FALSE /\ target.columns[t][c].nullable = TRUE
RiskyColumn(t, c) ==
    /\ t \in source.tables \cap target.tables
    /\ c \in GetColumns(source, t) \cap GetColumns(target, t)
    /\ TypeMismatch(t, c) \/ NullableMismatch(t, c)

HasReport(ops, text, t, c) ==
    \E k \in DOMAIN ops :
        /\ ops[k].kind = "report"
        /\ ops[k].comment.text = text
        /\ ops[k].comment.table = t
        /\ ops[k].comment.column = c

\* C1: for a column of a common table whose types differ or whose NOT NULL
\* the target lacks, the plan of diff() has no create_table of the table and
\* no add_column of the column, none of its create_table, add_column and
\* add_foreign_key operations changes the column when executed, and the
\* difference is in the plan as a report.
C1_RiskyColumnOnlyReported ==
    last_call = "diff" =>
        \A t \in Tables, c \in Cols :
            RiskyColumn(t, c) =>
                /\ \A k \in DOMAIN plan :
                      /\ plan[k].kind = "create_table" => plan[k].sql.table # t
                      /\ plan[k].kind = "add_column" =>
                            <<plan[k].sql.table, plan[k].sql.column>> # <<t, c>>
                      /\ plan[k].kind \in {"create_table", "add_column",
                                           "add_foreign_key"} =>
                            Execute(plan[k].sql, target).columns[t][c]
                                = target.columns[t][c]
                /\ TypeMismatch(t, c) =>
                      HasReport(plan, "RISKY: type mismatch", t, c)
                /\ NullableMismatch(t, c) =>
                      HasReport(plan, "RISKY: nullable mismatch", t, c)

\* diff() planned a foreign key on a column that has both differences
C1_Witness ==
    /\ last_call = "diff"
    /\ \E t \in Tables, c \in Cols :
          /\ RiskyColumn(t, c)
          /\ TypeMismatch(t, c)
          /\ NullableMismatch(t, c)
          /\ \E k \in DOMAIN plan :
                /\ plan[k].kind = "add_foreign_key"
                /\ plan[k].sql.table = t
                /\ plan[k].sql.fks[1].constrained_columns = <<c>>

\* the statements of the operations handed to conn.execute, without the
\* SET statements of _apply_timeouts
OpStatements == LET IsOp(e) == e.index > 0 IN SelectSeq(executed, IsOp)

\* the positions below or at n of the operations that are not reports
NonReportIndexes(ops, n) ==
    Sorted({j \in 1..n : j <= Len(ops) /\ ops[j].kind # "report"})

Executing == last_call = "apply" /\ tx # "none"

\* C2: apply(ops, dry_run=False) hands to conn.execute the statements of the
\* operations that are not reports, each once, in list order and nothing
\* else; a report is never executed whatever its sql, and only a statement
\* that was executed and failed ends the run early.
C2_ExecutesExactlyNonReports ==
    Executing =>
        LET E == OpStatements
            reached == IF result = "raised" THEN i ELSE i - 1
        IN /\ [k \in DOMAIN E |-> E[k].index]
                 = NonReportIndexes(ops_list, reached)
           /\ \A k \in DOMAIN E :
                 /\ E[k].stmt = ops_list[E[k].index].sql.stmt
                 /\ ~E[k].ok => (k = Len(E) /\ result = "raised")
           /\ result = "raised" => (E # <<>> /\ ~E[Len(E)].ok)
           /\ tx = "committed" => reached = Len(ops_list)

\* a run committed after passing a report whose sql is DROP TABLE of a
\* table of the target and executing two operations or more
C2_Witness ==
    /\ Executing
    /\ tx = "committed"
    /\ ops_list # <<>>
    /\ ops_list[1].kind = "report"
    /\ ops_list[1].sql.stmt = "DROP TABLE"
    /\ ops_list[1].sql.table \in target.tables
    /\ Len(OpStatements) >= 2

\* C3: when a statement fails during apply(dry_run=False) the target is as
\* it was before the call, whatever ran before the failing statement, and
\* the error is logged and raised to the caller.
C3_FailureLeavesTargetAsBefore ==
    (Executing /\ result = "raised") =>
        /\ target = pre
        /\ {"Apply failed", "Schema correction aborted due to error."}
              \subseteq logged

\* what the target held before is still there: its tables, their columns
\* with type and nullability, and their rows with the values they had
Preserved(before, after) ==
    /\ before.tables \subseteq after.tables
    /\ \A t \in before.tables :
          /\ \A c \in GetColumns(before, t) :
                after.columns[t][c] = before.columns[t][c]
          /\ Len(after.rows[t]) = Len(before.rows[t])
          /\ \A k \in DOMAIN before.rows[t], c \in GetColumns(before, t) :
                after.rows[t][k][c] = before.rows[t][k][c]

\* the plan is one diff() returns for the target as it was before apply()
FreshPlan ==
    \E it \in Iterations(source) :
        plan = Diff(source, Seen(pre, faults), dialect, it).ops

\* C4: after apply(dry_run=False) of the operations of a diff() plan that
\* are not reports has succeeded, every table, column and row the target had
\* before is still there unchanged, those only the target has included.
C4_SuccessfulApplyPreserves ==
    (Executing /\ tx = "committed" /\ FreshPlan
        /\ ops_list \in {plan, SafeOps(plan)})
        => Preserved(pre, target)

\* a run of a plan changed a target that has a table with a row the source
\* has not, and a common table with a column the source has not
C4_Witness ==
    /\ Executing
    /\ tx = "committed"
    /\ FreshPlan
    /\ ops_list = SafeOps(plan)
    /\ target # pre
    /\ \E t \in pre.tables \ source.tables : pre.rows[t] # <<>>
    /\ \E t \in pre.tables \cap source.tables :
          /\ GetColumns(pre, t) \ GetColumns(source, t) # {}
          /\ pre.rows[t] # <<>>

\* C5: apply() in dry-run mode, asked for or by default, prints every
\* operation of the list, reports included, opens no transaction, executes
\* nothing and leaves the target as it was.
C5_DryRunChangesNothing ==
    (last_call = "apply" /\ dry_run_arg \in {"omitted", "true"}) =>
        /\ printed = ops_list
        /\ tx = "none"
        /\ executed = <<>>
        /\ target = pre
        /\ result = "returned"

\* apply() was called without dry_run on a plan that has a report and an
\* operation that would change the target
C5_Witness ==
    /\ last_call = "apply"
    /\ dry_run_arg = "omitted"
    /\ \E j, k \in DOMAIN printed :
          /\ printed[j].kind = "report"
          /\ printed[k].kind # "report"
          /\ CanExecute(printed[k].sql, target, dialect)

\* what an operation creates: a table, a column of a table, an index
Entity(op) == <<op.kind, op.sql.table, op.sql.column, op.sql.index.name>>

Kinds(ops) == {ops[k].kind : k \in DOMAIN ops}

\* C6: once the operations of a diff() plan that are not reports have been
\* applied, no plan a second diff() can return has a create_table,
\* add_column or create_index for a table, column or index the first plan
\* created, and on a target other than SQLite it has no add_foreign_key.
C6_SecondDiffPlansNothingAgain ==
    (Executing /\ tx = "committed" /\ FreshPlan
        /\ ops_list \in {plan, SafeOps(plan)})
        => \A it \in Iterations(source) :
              LET second == Diff(source, target, dialect, it).ops
              IN /\ \A k \in DOMAIN second, j \in DOMAIN ops_list :
                       second[k].kind \in {"create_table", "add_column",
                                           "create_index"}
                           => Entity(second[k]) # Entity(ops_list[j])
                 /\ ~IsSqlite(dialect) =>
                       "add_foreign_key" \notin Kinds(second)

\* a plan that created a table, a column, an index and a foreign key was
\* applied
C6_Witness ==
    /\ Executing
    /\ tx = "committed"
    /\ FreshPlan
    /\ ops_list = SafeOps(plan)
    /\ {"create_table", "add_column", "create_index", "add_foreign_key"}
          \subseteq Kinds(ops_list)

\* C7: a diff() that follows a diff() returns the plan the first returned,
\* and diff() changes neither database.
C7_ConsecutiveDiffsAgree ==
    [][(last_call = "diff" /\ last_call' = "diff")
          => (plan' = plan /\ source' = source /\ target' = target)]_vars

\* C8: when the references among the missing tables have no cycle, the
\* orderer returns the missing tables with every table after the missing
\* tables it references, and the create_table operations of diff() follow
\* that order: a parent table is created before the tables referencing it.
C8_ParentsBeforeChildren ==
    /\ (sort_result.called /\ ~HasCycle(SeqToSet(missing), fk_lists))
          => /\ IsPermutation(sort_result.order, missing)
             /\ ParentsFirst(sort_result.order, fk_lists)
    /\ (last_call = "diff" /\ ~HasCycle(MissingTables, source.fks))
          => /\ IsPermutation(CreatedTables(plan), Sorted(MissingTables))
             /\ ParentsFirst(CreatedTables(plan), source.fks)

\* the orderer was called on an acyclic list it had to reorder, and diff()
\* planned a child table whose parent is missing too
C8_Witness ==
    /\ sort_result.called
    /\ ~HasCycle(SeqToSet(missing), fk_lists)
    /\ sort_result.order # missing
    /\ last_call = "diff"
    /\ \E j, k \in DOMAIN plan :
          /\ plan[j].kind = "create_table"
          /\ plan[k].kind = "create_table"
          /\ plan[j].sql.table \in Refs(source.fks, plan[k].sql.table)

\* C9: when the missing tables contain a cycle of references, the orderer
\* returns its input list as it was given and logs the cycle warning.
C9_CycleFallsBackToInput ==
    (sort_result.called /\ HasCycle(SeqToSet(missing), fk_lists))
        => /\ sort_result.order = missing
           /\ sort_result.warned

\* the orderer was called on two or more tables with a cycle, some of which
\* it could have ordered
C9_Witness ==
    /\ sort_result.called
    /\ HasCycle(SeqToSet(missing), fk_lists)
    /\ Len(missing) >= 2
    /\ \E t \in SeqToSet(missing) : Refs(fk_lists, t) \cap SeqToSet(missing) = {}
    /\ sort_result.order = missing
    /\ sort_result.warned

\* the foreign-key signatures of the source that table t of the target lacks
MissingFkSignatures(t) ==
    {FkSignature(source.fks[t][k]) : k \in DOMAIN source.fks[t]}
        \ {FkSignature(target.fks[t][k]) : k \in DOMAIN target.fks[t]}

\* the positions of the SQLite foreign-key reports of table t in a plan
SqliteFkReports(ops, t) ==
    {k \in DOMAIN ops :
        /\ ops[k].kind = "report"
        /\ ops[k].comment.text = "RISKY: SQLite cannot add FK via ALTER TABLE"
        /\ ops[k].comment.table = t}

\* C10: on a SQLite target the plan of diff() has no add_foreign_key, and
\* for every common table it has one report giving the number of missing
\* foreign keys when the table lacks some, and no such report otherwise.
C10_SqliteReportsMissingFksOncePerTable ==
    (last_call = "diff" /\ IsSqlite(dialect)) =>
        /\ "add_foreign_key" \notin Kinds(plan)
        /\ \A t \in source.tables \cap target.tables :
              LET n == Cardinality(MissingFkSignatures(t))
                  reports == SqliteFkReports(plan, t)
              IN IF n = 0 THEN reports = {}
                 ELSE /\ Cardinality(reports) = 1
                      /\ \A k \in reports : plan[k].comment.count = n

\* diff() on a SQLite target met a common table that lacks two foreign keys
\* and reported them once
C10_Witness ==
    /\ last_call = "diff"
    /\ IsSqlite(dialect)
    /\ \E t \in source.tables \cap target.tables :
          /\ Cardinality(MissingFkSignatures(t)) = 2
          /\ \E k \in SqliteFkReports(plan, t) : plan[k].comment.count = 2

\* the positions of the operations of a plan that satisfy a test
Positions(ops, Test(_)) == {k \in DOMAIN ops : Test(ops[k])}

\* what a database holds of one table
TableState(db, t) ==
    <<t \in db.tables, db.columns[t], db.indexes[t], db.fks[t], db.rows[t]>>

DiffReturned == last_call = "diff" /\ result = "returned"

\* C11: the plan of diff() has one report for each table only the target
\* has and no operation on it that is not a report or that would change it,
\* one create_table for each table only the source has, and no create_table
\* for a table both have.
C11_ExtraTablesReportedMissingCreated ==
    DiffReturned =>
        \A t \in Tables :
            LET IsExtraReport(op) ==
                    /\ op.kind = "report"
                    /\ op.comment.text = "EXTRA: table exists only in target"
                    /\ op.comment.table = t
                IsCreate(op) == op.kind = "create_table" /\ op.sql.table = t
                Touches(op) == op.kind # "report" /\ op.sql.table = t
                reports == Positions(plan, IsExtraReport)
                creates == Positions(plan, IsCreate)
            IN /\ Cardinality(reports)
                     = (IF t \in target.tables \ source.tables THEN 1 ELSE 0)
               /\ Cardinality(creates)
                     = (IF t \in source.tables \ target.tables THEN 1 ELSE 0)
               /\ t \in target.tables \ source.tables =>
                     /\ Positions(plan, Touches) = {}
                     /\ \A k \in DOMAIN plan :
                           TableState(Execute(plan[k].sql, target), t)
                               = TableState(target, t)

\* diff() met a table only the target has, a table only the source has and
\* a table both have
C11_Witness ==
    /\ DiffReturned
    /\ target.tables \ source.tables # {}
    /\ source.tables \ target.tables # {}
    /\ source.tables \cap target.tables # {}
    /\ \E k \in DOMAIN plan : plan[k].kind = "create_table"

\* the positions of the reports of a plan with a text, a table and a column
ReportsOf(ops, text, t, c) ==
    {k \in DOMAIN ops :
        /\ ops[k].kind = "report"
        /\ ops[k].comment.text = text
        /\ ops[k].comment.table = t
        /\ ops[k].comment.column = c}

CommonTables == source.tables \cap target.tables

\* C12: for a common table the plan of diff() has one add_column for each
\* column only the source has, with the type of the source and leaving the
\* column nullable, and one report, and no operation that changes it, for
\* each column only the target has.
C12_MissingColumnsAddedExtraReported ==
    DiffReturned =>
        \A t \in CommonTables, c \in Cols :
            LET only_source == c \in GetColumns(source, t) \ GetColumns(target, t)
                only_target == c \in GetColumns(target, t) \ GetColumns(source, t)
                IsAdd(op) == /\ op.kind = "add_column"
                             /\ op.sql.table = t
                             /\ op.sql.column = c
                OnColumn(op) == /\ op.kind # "report"
                                /\ op.sql.table = t
                                /\ op.sql.column = c
                adds == Positions(plan, IsAdd)
                extras == ReportsOf(plan, "EXTRA: column exists only in target",
                                    t, c)
            IN /\ Cardinality(adds) = (IF only_source THEN 1 ELSE 0)
               /\ \A k \in adds :
                     /\ plan[k].sql.type_sql = source.columns[t][c].type_sql
                     /\ Execute(plan[k].sql, target).columns[t][c]
                           = Column(source.columns[t][c].type_sql, TRUE)
               /\ Cardinality(extras) = (IF only_target THEN 1 ELSE 0)
               /\ only_target =>
                     /\ Positions(plan, OnColumn) = {}
                     /\ \A k \in DOMAIN plan :
                           Execute(plan[k].sql, target).columns[t][c]
                               = target.columns[t][c]

\* diff() planned the column of a common table that is NOT NULL in the
\* source and that the target lacks
C12_Witness ==
    /\ DiffReturned
    /\ \E t \in CommonTables, c \in Cols, k \in DOMAIN plan :
          /\ c \in GetColumns(source, t) \ GetColumns(target, t)
          /\ source.columns[t][c].nullable = FALSE
          /\ plan[k].kind = "add_column"
          /\ plan[k].sql.table = t
          /\ plan[k].sql.column = c

\* C13: for a column both databases have in a common table the plan of
\* diff() has a type mismatch report exactly when the rendered types
\* differ and a nullable mismatch report exactly when the source column is
\* NOT NULL and the target column nullable, each once.
C13_RiskReportsExactlyWhenDiffering ==
    DiffReturned =>
        \A t \in Tables, c \in Cols :
            LET both == /\ t \in CommonTables
                        /\ c \in GetColumns(source, t) \cap GetColumns(target, t)
            IN /\ Cardinality(ReportsOf(plan, "RISKY: type mismatch", t, c))
                     = (IF both /\ TypeMismatch(t, c) THEN 1 ELSE 0)
               /\ Cardinality(ReportsOf(plan, "RISKY: nullable mismatch", t, c))
                     = (IF both /\ NullableMismatch(t, c) THEN 1 ELSE 0)

\* diff() met a column with both differences and reported both
C13_Witness ==
    /\ DiffReturned
    /\ \E t \in CommonTables, c \in Cols :
          /\ c \in GetColumns(source, t) \cap GetColumns(target, t)
          /\ TypeMismatch(t, c)
          /\ NullableMismatch(t, c)
          /\ ReportsOf(plan, "RISKY: type mismatch", t, c) # {}
          /\ ReportsOf(plan, "RISKY: nullable mismatch", t, c) # {}

\* the positions of the create_index operations of a plan on an index name
\* of a table
CreateIndexesOf(ops, t, name) ==
    {k \in DOMAIN ops : /\ ops[k].kind = "create_index"
                        /\ ops[k].sql.table = t
                        /\ ops[k].sql.index.name = name}

\* C14: for every table of the source, in the target or not, the plan of
\* diff() has one create_index, with the columns and the uniqueness of the
\* source, for each named index of the source whose name is not among the
\* index names of the table in the target, reflected or listed by the
\* inspector only, and no create_index for any other index name.
C14_MissingIndexesCreatedByName ==
    DiffReturned =>
        /\ \A t \in source.tables : \A ix \in DOMAIN source.indexes[t] :
              LET info == source.indexes[t][ix]
                  creates == CreateIndexesOf(plan, t, info.name)
                  tgt_names == IF t \in target.tables
                               THEN IndexNamesOf(target, t) ELSE {}
              IN info.name # NoName =>
                    /\ Cardinality(creates)
                          = (IF info.name \in tgt_names THEN 0 ELSE 1)
                    /\ \A k \in creates :
                          /\ plan[k].sql.index.column_names = info.column_names
                          /\ plan[k].sql.index.unique = info.unique
        /\ \A k \in DOMAIN plan :
              plan[k].kind = "create_index" =>
                  /\ plan[k].sql.table \in source.tables
                  /\ plan[k].sql.index.name
                        \in IndexNamesOf(source, plan[k].sql.table) \ {NoName}

\* diff() met a common table with a reflected index the target has and an
\* index only the inspector lists that the target lacks, and a missing
\* table with indexes, and planned the indexes
C14_Witness ==
    /\ DiffReturned
    /\ \E t \in CommonTables : \E ix, jx \in DOMAIN source.indexes[t] :
          /\ source.indexes[t][ix].reflected
          /\ source.indexes[t][ix].name \in IndexNamesOf(target, t)
          /\ ~source.indexes[t][jx].reflected
          /\ CreateIndexesOf(plan, t, source.indexes[t][jx].name) # {}
    /\ \E t \in source.tables \ target.tables :
          /\ source.indexes[t] # <<>>
          /\ \A ix \in DOMAIN source.indexes[t] :
                CreateIndexesOf(plan, t, source.indexes[t][ix].name) # {}

\* the positions of the add_foreign_key operations of a plan on table t for
\* a foreign key with the signature of fk
AddForeignKeysOf(ops, t, fk) ==
    {k \in DOMAIN ops : /\ ops[k].kind = "add_foreign_key"
                        /\ ops[k].sql.table = t
                        /\ FkSignature(ops[k].sql.fks[1]) = FkSignature(fk)}

\* the foreign-key signatures table t has in the target
TargetFkSignatures(t) ==
    IF t \in target.tables
    THEN {FkSignature(target.fks[t][k]) : k \in DOMAIN target.fks[t]}
    ELSE {}

\* C15: on a target that is not SQLite the plan of diff() has one
\* add_foreign_key for each foreign key of the source whose signature the
\* target lacks, which is every foreign key of a table the target lacks,
\* none for a foreign key whose signature the target has, and no
\* add_foreign_key for anything else.
C15_MissingForeignKeysAdded ==
    (DiffReturned /\ ~IsSqlite(dialect)) =>
        /\ \A t \in source.tables : \A ix \in DOMAIN source.fks[t] :
              LET fk == source.fks[t][ix]
              IN Cardinality(AddForeignKeysOf(plan, t, fk))
                    = (IF FkSignature(fk) \in TargetFkSignatures(t)
                       THEN 0 ELSE 1)
        /\ \A k \in DOMAIN plan :
              plan[k].kind = "add_foreign_key" =>
                  /\ plan[k].sql.table \in source.tables
                  /\ \E ix \in DOMAIN source.fks[plan[k].sql.table] :
                        FkSignature(source.fks[plan[k].sql.table][ix])
                            = FkSignature(plan[k].sql.fks[1])

\* diff() met, on a target that is not SQLite, a common table with a
\* foreign key the target has and one it lacks, which refers to a table
\* that diff() plans to create
C15_Witness ==
    /\ DiffReturned
    /\ ~IsSqlite(dialect)
    /\ \E t \in CommonTables : \E ix, jx \in DOMAIN source.fks[t] :
          /\ FkSignature(source.fks[t][ix]) \in TargetFkSignatures(t)
          /\ AddForeignKeysOf(plan, t, source.fks[t][ix]) = {}
          /\ FkSignature(source.fks[t][jx]) \notin TargetFkSignatures(t)
          /\ AddForeignKeysOf(plan, t, source.fks[t][jx]) # {}
          /\ source.fks[t][jx].referred_table
                \in source.tables \ target.tables

\* the positions of the create_table operations of a plan
CreateTables(ops) == {k \in DOMAIN ops : ops[k].kind = "create_table"}

\* C16, as first stated: on a SQLite target the create_table of a missing
\* table leaves the foreign keys of the table out of the statement.
C16_SqliteCreateTableExcludesFks ==
    (DiffReturned /\ IsSqlite(dialect)) =>
        \A k \in CreateTables(plan) : plan[k].sql.fks = <<>>

\* C16: on a SQLite target the create_table of a missing table has the
\* foreign keys of the table in the statement, so that executing it gives
\* the target the table with the foreign keys of the source.
C16_SqliteCreateTableIncludesFks ==
    (DiffReturned /\ IsSqlite(dialect)) =>
        \A k \in CreateTables(plan) :
            LET t == plan[k].sql.table
            IN /\ plan[k].sql.fks = source.fks[t]
               /\ Execute(plan[k].sql, target).fks[t] = source.fks[t]

\* diff() planned, on a SQLite target, the creation of a table that has a
\* foreign key
C16_Witness ==
    /\ DiffReturned
    /\ IsSqlite(dialect)
    /\ \E k \in CreateTables(plan) : source.fks[plan[k].sql.table] # <<>>

\* the positions in executed of the timeout statements
TimeoutStatements ==
    {k \in DOMAIN executed :
        executed[k].stmt \in {"SET lock_timeout", "SET statement_timeout"}}

\* C17: in apply(dry_run=False) the timeout statements are executed on the
\* connection of the transaction that apply() has begun, before the
\* statement of any operation, with the configured values, and only on
\* PostgreSQL; on every other dialect no timeout statement is executed
\* whatever the configuration.
C17_TimeoutsFirstAndOnlyOnPostgres ==
    /\ executed # <<>> => last_call = "apply" /\ tx # "none"
    /\ pc = "timeouts" => tx = "open" /\ executed = <<>>
    /\ dialect # "postgresql" => TimeoutStatements = {}
    /\ \A k \in TimeoutStatements :
          /\ \A j \in DOMAIN executed : executed[j].index > 0 => k < j
          /\ executed[k].value
                = (IF executed[k].stmt = "SET lock_timeout"
                   THEN config.lock_timeout_seconds
                   ELSE config.statement_timeout_seconds)
          /\ executed[k].value > 0
    /\ (Executing /\ pc # "timeouts" /\ dialect = "postgresql") =>
          /\ (config.lock_timeout_seconds > 0) =
                (\E k \in TimeoutStatements :
                    executed[k].stmt = "SET lock_timeout")
          /\ (config.statement_timeout_seconds > 0) =
                (\E k \in TimeoutStatements :
                    executed[k].stmt = "SET statement_timeout")

\* apply(dry_run=False) on PostgreSQL executed a timeout statement and then
\* the statement of an operation
C17_Witness ==
    /\ Executing
    /\ dialect = "postgresql"
    /\ TimeoutStatements # {}
    /\ \E j \in DOMAIN executed : executed[j].index > 0

\* C18: whenever a listing of indexes or of foreign keys raises during
\* diff(), on the source or on the target, diff() returns a plan.
C18_DiffSurvivesFailingListings ==
    (last_call = "diff" /\ faults # {}) => result = "returned"

\* C19: the constraint name _build_fk_operation uses is the name of the
\* foreign key of the source when it has one, of whatever length; without
\* one it is the text fk_<table>_<columns joined by _>_<referred table>
\* cut after its first 60 characters, which depends on these three only.
C19_FkNameGivenOrSynthesized ==
    fk_name.called =>
        LET cols == fk_arg.constrained_columns
            columns_text ==
                IF Len(cols) = 1 THEN cols[1]
                ELSE cols[1] \o <<"_">> \o cols[2]
            whole == <<"f", "k", "_">> \o fk_arg.table_name \o <<"_">>
                     \o columns_text \o <<"_">> \o fk_arg.referred_table
        IN IF fk_arg.name # NoName
           THEN fk_name.name = fk_arg.name
           ELSE /\ Len(fk_name.name) <= MaxFkNameLen
                /\ Len(fk_name.name) = Min(Len(whole), MaxFkNameLen)
                /\ \A k \in DOMAIN fk_name.name : fk_name.name[k] = whole[k]

\* _build_fk_operation named a foreign key that has no name of its own and
\* whose table and first column names together reach the maximum
C19_Witness ==
    /\ fk_name.called
    /\ fk_arg.name = NoName
    /\ Len(fk_arg.table_name) + Len(fk_arg.constrained_columns[1])
          + Len(fk_arg.referred_table) >= MaxFkNameLen
    /\ Len(fk_name.name) = MaxFkNameLen

\* the pass of diff() an operation of a plan belongs to
PassOf(op) ==
    CASE op.kind = "report"
         /\ op.comment.text = "EXTRA: table exists only in target" -> 1
      [] op.kind = "create_table" -> 2
      [] op.kind = "create_index" /\ op.sql.table \notin target.tables -> 2
      [] op.kind = "report"
         /\ op.comment.text = "EXTRA: column exists only in target" -> 3
      [] op.kind = "add_column" -> 3
      [] op.kind = "create_index" /\ op.sql.table \in target.tables -> 4
      [] op.kind = "add_foreign_key" -> 5
      [] op.kind = "report"
         /\ op.comment.text
               = "RISKY: SQLite cannot add FK via ALTER TABLE" -> 5
      [] op.kind = "report"
         /\ op.comment.text \in {"RISKY: type mismatch",
                                 "RISKY: nullable mismatch"} -> 6
      [] OTHER -> 0

PassesOf(ops) == {PassOf(ops[k]) : k \in DOMAIN ops}

\* C20: the operations of a plan of diff() come pass after pass: reports
\* of extra tables, then each missing table's create_table followed by
\* its own create_index operations, then extra-column reports and
\* add_column, then create_index of common tables, then add_foreign_key
\* or the SQLite foreign-key reports, then type and nullable reports.
C20_PassOrder ==
    DiffReturned =>
        /\ \A k \in DOMAIN plan : PassOf(plan[k]) \in 1..6
        /\ \A j, k \in DOMAIN plan :
              j < k => PassOf(plan[j]) <= PassOf(plan[k])
        /\ \A k \in DOMAIN plan :
              (plan[k].kind = "create_index" /\ PassOf(plan[k]) = 2) =>
                  \E j \in 1..(k - 1) :
                      /\ plan[j].kind = "create_table"
                      /\ plan[j].sql.table = plan[k].sql.table
                      /\ \A m \in (j + 1)..(k - 1) :
                            plan[m].kind = "create_index"

\* diff() returned a plan with operations of the first five passes, a
\* missing table with an index among them
C20_Witness ==
    /\ DiffReturned
    /\ 1..5 \subseteq PassesOf(plan)
    /\ \E k \in DOMAIN plan :
          plan[k].kind = "create_index" /\ PassOf(plan[k]) = 2

\* what a foreign key constrains and refers to, whatever its actions
FkReference(fk) ==
    <<fk.constrained_columns, fk.referred_schema, fk.referred_table,
      fk.referred_columns>>

\* whether table t of the target has a foreign key on the columns and the
\* reference of fk with another ON DELETE or ON UPDATE, and none with all
\* of them equal
DiffersInActionsOnly(t, fk) ==
    /\ \E k \in DOMAIN target.fks[t] :
          /\ FkReference(target.fks[t][k]) = FkReference(fk)
          /\ \/ target.fks[t][k].ondelete # fk.ondelete
             \/ target.fks[t][k].onupdate # fk.onupdate
    /\ \A k \in DOMAIN target.fks[t] :
          FkReference(target.fks[t][k]) = FkReference(fk) =>
              \/ target.fks[t][k].ondelete # fk.ondelete
              \/ target.fks[t][k].onupdate # fk.onupdate

\* the texts of the reports diff() makes on a target that is not SQLite
ReportTexts ==
    {"EXTRA: table exists only in target",
     "EXTRA: column exists only in target",
     "RISKY: type mismatch", "RISKY: nullable mismatch"}

\* C21: on a target that is not SQLite, for a foreign key of a common
\* table that the target has with the same columns and reference but
\* another ON DELETE or ON UPDATE, the plan of diff() has one
\* add_foreign_key with the actions of the source, and no report other
\* than those of tables and columns.
C21_ActionDifferenceIsAddedNotReported ==
    (DiffReturned /\ ~IsSqlite(dialect)) =>
        \A t \in CommonTables : \A ix \in DOMAIN source.fks[t] :
            LET fk == source.fks[t][ix]
                adds == AddForeignKeysOf(plan, t, fk)
            IN DiffersInActionsOnly(t, fk) =>
                  /\ Cardinality(adds) = 1
                  /\ \A k \in adds :
                        /\ plan[k].sql.fks[1].ondelete = fk.ondelete
                        /\ plan[k].sql.fks[1].onupdate = fk.onupdate
                  /\ \A k \in DOMAIN plan :
                        plan[k].kind = "report" =>
                            plan[k].comment.text \in ReportTexts

\* diff() met, on a target that is not SQLite, a foreign key that the
\* target has with another ON UPDATE and planned it
C21_Witness ==
    /\ DiffReturned
    /\ ~IsSqlite(dialect)
    /\ \E t \in CommonTables : \E ix \in DOMAIN source.fks[t] :
          /\ DiffersInActionsOnly(t, source.fks[t][ix])
          /\ \E k \in DOMAIN target.fks[t] :
                target.fks[t][k].onupdate # source.fks[t][ix].onupdate
          /\ AddForeignKeysOf(plan, t, source.fks[t][ix]) # {}

\* whether _build_fk_operation has what it needs in a description
Buildable(fk) ==
    /\ fk.referred_table # 0
    /\ fk.constrained_columns # <<>>
    /\ fk.referred_columns # <<>>

\* whether a report of the plan counts the foreign key fk of table t
CountedInReport(t, fk) ==
    /\ t \in CommonTables
    /\ FkSignature(fk) \in MissingFkSignatures(t)
    /\ \E k \in SqliteFkReports(plan, t) :
          plan[k].comment.count = Cardinality(MissingFkSignatures(t))

\* C22, as first stated: for a description of a source foreign key that
\* lacks the referred table, the constrained columns or the referred
\* columns, the plan of diff() has no add_foreign_key and no report for it,
\* on any dialect.
C22_DefectiveFkNeitherAddedNorReported ==
    DiffReturned =>
        \A t \in source.tables : \A ix \in DOMAIN source.fks[t] :
            ~Buildable(source.fks[t][ix]) =>
                /\ AddForeignKeysOf(plan, t, source.fks[t][ix]) = {}
                /\ ~CountedInReport(t, source.fks[t][ix])

\* C22: on a target that is not SQLite, for a description of a source
\* foreign key that lacks the referred table, the constrained columns or
\* the referred columns, _build_fk_operation returns None and the plan of
\* diff() has no add_foreign_key for it and no report about foreign keys.
C22_DefectiveFkSkippedWhereAlterAdds ==
    (DiffReturned /\ ~IsSqlite(dialect)) =>
        \A t \in source.tables : \A ix \in DOMAIN source.fks[t] :
            ~Buildable(source.fks[t][ix]) =>
                /\ BuildFkOperation(t, source.fks[t][ix], dialect) = <<>>
                /\ AddForeignKeysOf(plan, t, source.fks[t][ix]) = {}
                /\ \A k \in DOMAIN plan :
                      plan[k].kind = "report" =>
                          plan[k].comment.text \in ReportTexts

\* diff() met, on a target that is not SQLite, a common table and a missing
\* table with a description that lacks something after a foreign key it
\* planned
C22_Witness ==
    /\ DiffReturned
    /\ ~IsSqlite(dialect)
    /\ \E t \in CommonTables : \E ix \in DOMAIN source.fks[t] :
          ~Buildable(source.fks[t][ix])
    /\ \E t \in source.tables \ target.tables :
          /\ \E ix \in DOMAIN source.fks[t] : ~Buildable(source.fks[t][ix])
          /\ \E k \in DOMAIN plan :
                plan[k].kind = "add_foreign_key" /\ plan[k].sql.table = t

\* C23: when the listing of the indexes of the target raises, the plan has
\* one create_index for every named index of the source on every common
\* table, and when the listing of the foreign keys of the target raises on
\* a target that is not SQLite, one add_foreign_key for every foreign key
\* of the source that can be built on every common table, whatever the
\* target holds.
C23_FailingTargetListingCountsAsEmpty ==
    DiffReturned =>
        \A t \in CommonTables :
            /\ "target indexes" \in faults =>
                  \A ix \in DOMAIN source.indexes[t] :
                      source.indexes[t][ix].name # NoName =>
                          Cardinality(CreateIndexesOf(
                              plan, t, source.indexes[t][ix].name)) = 1
            /\ ("target foreign keys" \in faults /\ ~IsSqlite(dialect)) =>
                  \A ix \in DOMAIN source.fks[t] :
                      Buildable(source.fks[t][ix]) =>
                          Cardinality(AddForeignKeysOf(
                              plan, t, source.fks[t][ix])) = 1

\* diff() planned, with both listings of the target raising, an index and
\* a foreign key that the target has
C23_Witness ==
    /\ DiffReturned
    /\ ~IsSqlite(dialect)
    /\ {"target indexes", "target foreign keys"} \subseteq faults
    /\ \E t \in CommonTables :
          /\ \E ix \in DOMAIN source.indexes[t] :
                /\ source.indexes[t][ix].name \in IndexNamesOf(target, t)
                /\ CreateIndexesOf(plan, t, source.indexes[t][ix].name) # {}
          /\ \E ix \in DOMAIN source.fks[t] :
                /\ FkSignature(source.fks[t][ix]) \in TargetFkSignatures(t)
                /\ AddForeignKeysOf(plan, t, source.fks[t][ix]) # {}

\* the foreign keys of every table that refer to a table of the set M
FksInside(fks, M) ==
    [t \in DOMAIN fks |->
        LET Inside(fk) == fk.referred_table \in M
        IN SelectSeq(fks[t], Inside)]

\* C24: the orderer returns what it returns when the foreign keys to
\* tables outside the missing set are taken away: such a foreign key
\* changes neither the order nor the warning, and without a cycle inside
\* the missing set there is no warning.
C24_ReferencesOutsideMissingIgnored ==
    sort_result.called =>
        LET M == SeqToSet(missing)
            r == SortMissingTablesByFk(FksInside(fk_lists, M), missing)
        IN /\ sort_result.order = r.order
           /\ sort_result.warned = r.warned
           /\ ~HasCycle(M, fk_lists) => ~sort_result.warned
           /\ \A t \in M :
                 (Refs(fk_lists, t) \cap M = {} /\ ~sort_result.warned) =>
                     \A j, k \in DOMAIN sort_result.order :
                         (sort_result.order[k] = t
                          /\ t \in Refs(fk_lists, sort_result.order[j]))
                             => k < j

\* the orderer was called on tables one of which references a table
\* outside the list that references it back, and ordered them without a
\* warning
C24_Witness ==
    /\ sort_result.called
    /\ Len(missing) >= 2
    /\ ~sort_result.warned
    /\ \E t \in SeqToSet(missing) :
          \E u \in Refs(fk_lists, t) \ SeqToSet(missing) :
              t \in Refs(fk_lists, u)

\* the positions in executed of the statements that raised
FailedStatements == {k \in DOMAIN executed : ~executed[k].ok}

\* C25: in apply(dry_run=False) no operation is handed to conn.execute
\* twice, and a statement that raised is the last one executed: the call
\* has ended by raising, with the operations after it never tried.
C25_NoRetryNothingAfterFailure ==
    /\ \A j, k \in DOMAIN executed :
          (executed[j].index > 0 /\ executed[j].index = executed[k].index)
              => j = k
    /\ \A k \in FailedStatements :
          /\ k = Len(executed)
          /\ result = "raised"
          /\ pc = "idle"
          /\ tx = "rolled back"
          /\ \A j \in DOMAIN executed : executed[j].index <= executed[k].index

\* apply(dry_run=False) raised on a statement after executing another, with
\* an operation that is not a report left untried after it
C25_Witness ==
    /\ last_call = "apply"
    /\ result = "raised"
    /\ \E k \in FailedStatements :
          /\ \E j \in 1..(k - 1) : executed[j].index > 0
          /\ \E n \in (executed[k].index + 1)..Len(ops_list) :
                ops_list[n].kind # "report"

\* C26: _sort_missing_tables_by_fk returns, whatever the list and the
\* foreign keys, and what it returns has every table of the list once and
\* nothing else, from the loop or from the fallback.
C26_SortTerminatesWithPermutation ==
    /\ <>(sort_pc = "returned")
    /\ [](sort_pc = "returned" =>
            /\ sort_result.called
            /\ IsPermutation(sort_result.order, missing))
    /\ [](sort_pc = "while" =>
            /\ Len(sort_out) <= Len(missing)
            /\ \A j, k \in DOMAIN sort_out : sort_out[j] = sort_out[k] => j = k)

\* the orderer returned the order of the loop for three tables or more,
\* and not the order of the list
C26_Witness ==
    /\ sort_pc = "returned"
    /\ Len(missing) >= 3
    /\ ~sort_result.warned
    /\ sort_result.order # missing

\* the tables of the list that reference themselves
SelfReferencing == {t \in SeqToSet(missing) : t \in Refs(fk_lists, t)}

\* C27: a table of the list that references itself never enters ready nor
\* out, and the orderer then returns the list as it was given, with the
\* cycle warning.
C27_SelfReferenceForcesFallback ==
    \A t \in SelfReferencing :
        /\ t \notin SeqToSet(sort_ready)
        /\ t \notin SeqToSet(sort_out)
        /\ sort_pc = "returned" =>
              /\ sort_result.order = missing
              /\ sort_result.warned
              /\ "RISKY: cycle detected" \in logged

\* the orderer returned for a list with a table that references itself,
\* where no two tables reference each other, after giving an order to
\* another table, which the list has elsewhere
C27_Witness ==
    /\ sort_pc = "returned"
    /\ SelfReferencing # {}
    /\ \A t, u \in SeqToSet(missing) :
          (t # u /\ u \in Refs(fk_lists, t)) => t \notin Refs(fk_lists, u)
    /\ sort_out # <<>>
    /\ sort_out # SubSeq(missing, 1, Len(sort_out))
    /\ sort_result.order = missing

\* the tables the target has once the operations before position j of the
\* plan were executed
TablesBefore(j) ==
    target.tables
        \cup {plan[k].sql.table : k \in CreateTables(plan) \cap 1..(j - 1)}

\* C28: in a plan of diff() for a target that is not SQLite no
\* create_table has foreign keys, every add_foreign_key comes after every
\* create_table, and at the turn of an add_foreign_key its table and the
\* table it refers to are in the target or were created before, cycle of
\* references among the missing tables or not.
C28_ForeignKeysAfterTheirTables ==
    (DiffReturned /\ ~IsSqlite(dialect)) =>
        /\ \A k \in CreateTables(plan) : plan[k].sql.fks = <<>>
        /\ \A j \in DOMAIN plan :
              plan[j].kind = "add_foreign_key" =>
                  /\ \A k \in CreateTables(plan) : k < j
                  /\ plan[j].sql.table \in TablesBefore(j)
                  /\ plan[j].sql.fks[1].referred_table \in TablesBefore(j)

\* diff() planned, for a target that is not SQLite, two missing tables that
\* reference each other
C28_Witness ==
    /\ DiffReturned
    /\ ~IsSqlite(dialect)
    /\ \E t, u \in source.tables \ target.tables :
          /\ t # u
          /\ u \in Refs(source.fks, t)
          /\ t \in Refs(source.fks, u)
          /\ \E j, k \in DOMAIN plan :
                /\ plan[j].kind = "add_foreign_key"
                /\ plan[j].sql.table = t
                /\ plan[k].kind = "add_foreign_key"
                /\ plan[k].sql.table = u

\* the positions of the add_column operations of a plan for column c of
\* table t
AddColumnsOf(ops, t, c) ==
    {k \in DOMAIN ops : /\ ops[k].kind = "add_column"
                        /\ ops[k].sql.table = t
                        /\ ops[k].sql.column = c}

\* the columns a list of operations adds that are NOT NULL in the source
AddedNotNullColumns(ops) ==
    {<<ops[k].sql.table, ops[k].sql.column>> :
        k \in {j \in DOMAIN ops :
                 /\ ops[j].kind = "add_column"
                 /\ ~source.columns[ops[j].sql.table][ops[j].sql.column]
                        .nullable}}

\* C29: once a plan of diff() with an add_column for a column that is NOT
\* NULL in the source has been applied, the target has the column,
\* nullable, and every plan a second diff() can return has no add_column
\* for it and one nullable mismatch report for it.
C29_AddedColumnReportedNullableNext ==
    (Executing /\ tx = "committed" /\ FreshPlan
        /\ ops_list \in {plan, SafeOps(plan)})
        => \A tc \in AddedNotNullColumns(ops_list) :
              /\ target.columns[tc[1]][tc[2]]
                    = Column(source.columns[tc[1]][tc[2]].type_sql, TRUE)
              /\ \A it \in Iterations(source) :
                    \E second \in {Diff(source, target, dialect, it).ops} :
                        /\ AddColumnsOf(second, tc[1], tc[2]) = {}
                        /\ Cardinality(ReportsOf(
                               second, "RISKY: nullable mismatch",
                               tc[1], tc[2])) = 1

\* a plan of diff() that adds a column that is NOT NULL in the source to a
\* table with a row was applied
C29_Witness ==
    /\ Executing
    /\ tx = "committed"
    /\ FreshPlan
    /\ ops_list = plan
    /\ \E tc \in AddedNotNullColumns(ops_list) :
          /\ pre.rows[tc[1]] # <<>>
          /\ ~pre.columns[tc[1]][tc[2]].present

\* column c is in table t of both databases with equal rendered types,
\* nullable in the source and NOT NULL in the target
ReverseNullable(t, c) ==
    /\ t \in CommonTables
    /\ c \in GetColumns(source, t) \cap GetColumns(target, t)
    /\ ~TypeMismatch(t, c)
    /\ source.columns[t][c].nullable = TRUE
    /\ target.columns[t][c].nullable = FALSE

\* the positions of the operations of a plan whose statement or comment is
\* on column c of table t
OpsOnColumn(ops, t, c) ==
    {k \in DOMAIN ops :
        \/ ops[k].sql.table = t /\ ops[k].sql.column = c
        \/ ops[k].comment.table = t /\ ops[k].comment.column = c}

\* the positions of the operations of a plan whose statement or comment is
\* on table t
OpsOnTable(ops, t) ==
    {k \in DOMAIN ops : ops[k].sql.table = t \/ ops[k].comment.table = t}

\* table t has no index and no foreign key in the source, and every column
\* of it is in both databases or in neither, with equal rendered types, and
\* is not NOT NULL in the source while nullable in the target
OtherwiseAlike(t) ==
    /\ GetForeignKeys(source, t) = <<>>
    /\ source.indexes[t] = <<>>
    /\ \A c \in Cols :
          /\ source.columns[t][c].present = target.columns[t][c].present
          /\ source.columns[t][c].present
                => ~TypeMismatch(t, c) /\ ~NullableMismatch(t, c)

\* C30: for a column in both databases with equal rendered types, nullable
\* in the source and NOT NULL in the target, the plan of diff() has no
\* operation on the column, report or other, and when nothing else of the
\* table differs the plan has no operation on the table at all.
C30_ReverseNullabilityPlansNothing ==
    DiffReturned =>
        \A t \in Tables, c \in Cols :
            ReverseNullable(t, c)
                => /\ OpsOnColumn(plan, t, c) = {}
                   /\ OtherwiseAlike(t) => OpsOnTable(plan, t) = {}

\* diff() returned on a table whose only difference is a column nullable in
\* the source and NOT NULL in the target
C30_Witness ==
    /\ DiffReturned
    /\ \E t \in Tables, c \in Cols \ {1} :
          /\ ReverseNullable(t, c)
          /\ OtherwiseAlike(t)
          /\ OpsOnTable(plan, t) = {}

====
